---------------------------- MODULE Spec2Model ----------------------------
(***************************************************************************)
(* Model of the lightning-logger core: the I2CFlow register-transaction    *)
(* layer (lib/i2cflow.py), the AS3935 driver (lib/as3935.py) and the       *)
(* application on top of it (app_as3935.py).                               *)
(*                                                                         *)
(* The bus peer is a register file `regs`.  A call of the program is one   *)
(* action; what the transport does during the call is an input of the      *)
(* action: a script of outcomes, one per transfer the call issues, the     *)
(* transfers after the end of the script succeeding.  Each call leaves in  *)
(* `call` what its caller observes (the value returned or the exception    *)
(* raised) and in `trace` the bus transfers it issued and the             *)
(* time.sleep_ms() calls it made, in order.  The clock `now` is the value  *)
(* of time.ticks_ms(); a sleep advances it.                                *)
(***************************************************************************)
EXTENDS Integers, Sequences, FiniteSets, TLC

VARIABLES
    regs,        \* the device's registers: address -> byte
    retries,     \* I2CFlow._retries
    backoff_ms,  \* I2CFlow._backoff_ms
    last,        \* I2CFlow.last
    call,        \* the last call and its outcome, "idle" between calls
    trace,       \* the bus transfers and sleeps of the last call, in order
    now,         \* time.ticks_ms()
    log,         \* AS3935._log: whether it is a list (not None), and its items
    log_cap,     \* AS3935._log_cap
    irq_pin,     \* AS3935._irq_pin: whether a pin is attached (not None)
    irq_pending, \* AS3935._irq_pending
    irq_last_ms, \* AS3935._irq_last_ms
    hist,        \* the events appended to the log since it was last emptied
    cb,          \* AS3935._cb: the registered observer, by what it does
    pin_handler, \* the handler registered on the interrupt pin by Pin.irq()
    irqlog,      \* the interrupt edges and the clearings of _irq_pending, in order
    app,         \* the AS3935App object's fields
    sink,        \* the state last delivered to the publish sink
    pc           \* the call in progress and the statement it is at, or idle

vars == <<regs, retries, backoff_ms, last, call, trace, now,
          log, log_cap, irq_pin, irq_pending, irq_last_ms, hist,
          cb, pin_handler, irqlog, app, sink, pc>>

flowvars == <<retries, backoff_ms>>
drvvars == <<log, log_cap, irq_pin, irq_pending, irq_last_ms, hist, cb, pin_handler, irqlog>>
appvars == <<app, sink, pc>>

----------------------------------------------------------------------------
(* Bounds of the model *)

\* largest retry count given to retry()
MaxRetries == 1
\* longest script of transport outcomes given to one call
MaxFaults == 3

----------------------------------------------------------------------------
(* Integer bit arithmetic on non-negative integers, as Python computes it *)

RECURSIVE BitAnd(_, _)
BitAnd(a, b) ==
    IF a = 0 \/ b = 0 THEN 0
    ELSE (a % 2) * (b % 2) + 2 * BitAnd(a \div 2, b \div 2)

RECURSIVE BitOr(_, _)
BitOr(a, b) ==
    IF a = 0 THEN b
    ELSE IF b = 0 THEN a
    ELSE (IF a % 2 = 1 \/ b % 2 = 1 THEN 1 ELSE 0) + 2 * BitOr(a \div 2, b \div 2)

\* a & ~b for a, b >= 0: the bits of a that are not bits of b
RECURSIVE BitAndNot(_, _)
BitAndNot(a, b) ==
    IF a = 0 THEN 0
    ELSE (a % 2) * (1 - (b % 2)) + 2 * BitAndNot(a \div 2, b \div 2)

RECURSIVE Pow2(_)
Pow2(n) == IF n = 0 THEN 1 ELSE 2 * Pow2(n - 1)

Shl(v, s) == v * Pow2(s)
Shr(v, s) == v \div Pow2(s)

Byte == 0 .. 255

----------------------------------------------------------------------------
(* Register map, lib/as3935.py *)

REG_AFE_GAIN == 0
REG_NOISE_WATCHDOG == 1
REG_SREJ_MINSTRK == 2
REG_IRQ_MASK_SRC == 3
REG_ENERGY_LSB == 4
REG_ENERGY_MID == 5
REG_ENERGY_MSB == 6
REG_DISTANCE == 7
REG_DISPLAY_TUNING == 8
REG_PRESET_DEFAULT == 60
REG_CALIB_RCO == 61

RegAddrs == 0 .. 8

\* Bit masks / fields
BIT_POWERDOWN == 1
MASK_AFE_GAIN == Shl(31, 1)
MASK_NOISE_FLOOR == Shl(7, 4)
MASK_WATCHDOG == 15
BIT_CLEAR_STATS == Shl(1, 6)
MASK_MIN_STRIKES == Shl(3, 4)
MASK_SPIKE_REJ == 15
MASK_LCO_DIVIDER == Shl(3, 6)
BIT_MASK_DIST == Shl(1, 5)
MASK_IRQ_SRC == 15
MASK_DISTANCE == 63
BIT_DISP_LCO == Shl(1, 7)
BIT_DISP_SRCO == Shl(1, 6)
BIT_DISP_TRCO == Shl(1, 5)
MASK_TUN_CAP == 15

\* AFE presets
AFE_GAIN_INDOOR == 18
AFE_GAIN_OUTDOOR == 14

\* Convenience maps
MIN_LIGHTNING_MAP == (1 :> 0) @@ (5 :> 1) @@ (9 :> 2) @@ (16 :> 3)
DIVIDER_MAP == (16 :> 0) @@ (32 :> 1) @@ (64 :> 2) @@ (128 :> 3)

----------------------------------------------------------------------------
(* The transport: machine.I2C.readfrom_mem / writeto_mem on the register   *)
(* file.  An execution state st carries the registers, the rest of the     *)
(* script, the trace so far, the clock, I2CFlow.last and what a driver     *)
(* call changes of the driver: the log (with the events appended to it)    *)
(* and the pending flag.  A transfer that raises leaves the registers as   *)
(* they are.                                                               *)

\* what a transfer can do: succeed, raise OSError, raise another exception
Outcomes == {"ok", "OSError", "Exception"}

NoneVal == <<>>

\* no call made yet
IdleCall == [op |-> "idle"]

\* AS3935._log before enable_logging(): None
NoLog == [enabled |-> FALSE, items |-> <<>>]

\* AS3935App.__init__, app_as3935.py lines 17-39; `sensor` and `mqtt` tell
\* whether the attribute is set (not None).  `runs` is no attribute of the
\* object: it counts the calls of run() that have entered the loop, where
\* they are counted.
NewApp ==
    [sensor |-> FALSE, running |-> FALSE, runs |-> 0,
     irq_pin |-> FALSE, irq_pending |-> FALSE, irq_last_ms |-> 0, log |-> <<>>,
     mqtt |-> FALSE, last_src |-> 0,
     last_dist_ms |-> 0, last_noise_ms |-> 0, last_keepalive_ms |-> 0,
     throttle_dist_ms |-> 10 * 60 * 1000, throttle_noise_ms |-> 10 * 60 * 1000,
     keepalive_ms |-> 15 * 60 * 1000]

\* The execution state of a call that is given `script` for its transfers:
\* `pscript` scripts the outcomes of the sink's publish() the same way, and
\* `pubs` collects the publish() calls made; `notes` collects the calls made
\* to the registered observer.
Exec(script) ==
    [regs |-> regs, script |-> script, trace |-> <<>>, now |-> now, last |-> last,
     log |-> log, hist |-> hist, irq_pending |-> irq_pending,
     retries |-> retries, backoff_ms |-> backoff_ms,
     app |-> app, sink |-> sink, pscript |-> <<>>, pubs |-> <<>>,
     cb |-> cb, notes |-> <<>>, read_clears |-> FALSE]

\* The same, on a device whose interrupt-source latch is cleared by a read of
\* the interrupt register, as service() takes it to be (line 125: "also
\* clears the IRQ source internally").
ExecDev(script) == [Exec(script) EXCEPT !.read_clears = TRUE]

\* the registers after a read of n bytes from reg on
AfterReadRegs(st, reg, n) ==
    IF st.read_clears /\ REG_IRQ_MASK_SRC \in reg .. reg + n - 1
    THEN [st.regs EXCEPT ![REG_IRQ_MASK_SRC] = BitAndNot(@, MASK_IRQ_SRC)]
    ELSE st.regs

NextOutcome(st) == IF st.script = <<>> THEN "ok" ELSE Head(st.script)
RestScript(st) == IF st.script = <<>> THEN <<>> ELSE Tail(st.script)

\* i2c.readfrom_mem(addr, reg, n): the n bytes from reg on, or an exception
readfrom_mem(st, reg, n) ==
    LET res == NextOutcome(st)
        st2 == [st EXCEPT !.script = RestScript(st),
                          !.regs = IF res = "ok" THEN AfterReadRegs(st, reg, n) ELSE @,
                          !.trace = Append(@, [op |-> "r", reg |-> reg,
                                               data |-> <<>>, res |-> res])]
    IN [st |-> st2, status |-> res,
        val |-> IF res = "ok" THEN [i \in 1 .. n |-> st.regs[reg + i - 1]]
                ELSE NoneVal]

\* i2c.writeto_mem(addr, reg, data): stores data from reg on, or an exception
writeto_mem(st, reg, data) ==
    LET res == NextOutcome(st)
        st2 == [st EXCEPT !.script = RestScript(st),
                          !.trace = Append(@, [op |-> "w", reg |-> reg,
                                               data |-> data, res |-> res])]
        st3 == IF res = "ok"
               THEN [st2 EXCEPT !.regs =
                        [a \in DOMAIN st.regs |->
                            IF a >= reg /\ a < reg + Len(data)
                            THEN data[a - reg + 1] ELSE st.regs[a]]]
               ELSE st2
    IN [st |-> st3, status |-> res, val |-> NoneVal]

\* a result with its value replaced, when it is a success
SetVal(r, v) == IF r.status = "ok" THEN [r EXCEPT !.val = v] ELSE r

\* time.sleep_ms(ms)
sleep_ms(st, ms) ==
    [st EXCEPT !.trace = Append(@, [op |-> "sleep", ms |-> ms]), !.now = @ + ms]

----------------------------------------------------------------------------
(* I2CFlow, lib/i2cflow.py *)

\* rmw's op(), line 58: the byte with the field replaced
RmwOrBug(v, mask, shift, value) == BitOr(v, BitAnd(Shl(value, shift), mask))
RmwValue(v, mask, shift, value) ==
    BitOr(BitAndNot(v, mask), BitAnd(Shl(value, shift), mask))

\* field_get's op(), line 67
FieldValue(v, mask, shift) == Shr(BitAnd(v, mask), shift)

\* readfrom_mem(...)[0]: the byte of a one-byte read
FirstByte(r) == IF r.status = "ok" THEN [r EXCEPT !.val = <<r.val[1]>>] ELSE r

\* rmw's op(), lines 57-60, after its read r
RmwWrite(fn, r, v) ==
    SetVal(writeto_mem(r.st, fn.reg, <<BitAnd(v, 255)>>), <<v>>)
RmwAfterRead(fn, r) ==
    IF r.status # "ok" THEN r
    ELSE RmwWrite(fn, r, RmwValue(r.val[1], fn.mask, fn.shift, fn.value))

\* field_get's op(), lines 66-67, after its read r
FieldGetAfterRead(fn, r) ==
    IF r.status # "ok" THEN r
    ELSE [r EXCEPT !.val = <<FieldValue(r.val[1], fn.mask, fn.shift)>>]

\* The function handed to _with_retry, run once: the lambdas of read1, readn,
\* write1, writen and the op() of rmw and field_get.
Attempt(fn, st) ==
    CASE fn.kind = "read1" -> FirstByte(readfrom_mem(st, fn.reg, 1))
      [] fn.kind = "readn" -> readfrom_mem(st, fn.reg, fn.n)
      [] fn.kind = "write1" -> writeto_mem(st, fn.reg, <<BitAnd(fn.value, 255)>>)
      [] fn.kind = "writen" -> writeto_mem(st, fn.reg, fn.data)
      [] fn.kind = "rmw" -> RmwAfterRead(fn, readfrom_mem(st, fn.reg, 1))
      [] fn.kind = "field_get" -> FieldGetAfterRead(fn, readfrom_mem(st, fn.reg, 1))

\* line 72
AttemptsOffByOne(r) == r
Attempts(r) == r + 1

\* line 77: the exceptions _with_retry catches
Caught(exc) == exc = "OSError"

\* line 79: whether to sleep after failed attempt k
BackoffAlways(k, attempts, backoff) == backoff # 0
ShouldBackoff(k, attempts, backoff) == k < attempts - 1 /\ backoff # 0

\* _with_retry, lines 71-81: the loop from attempt k on (with_retry_from) and
\* what follows attempt k, whose result is a (after_attempt).  The result is
\* the value returned (status "ok"), the I2CError raised after the loop, with
\* the attempt count and the last exception of its message, or the exception
\* the except clause does not catch.
RECURSIVE with_retry_from(_, _, _, _, _, _)
RECURSIVE after_attempt(_, _, _, _, _)
with_retry_from(fn, st, k, attempts, backoff, last_exc) ==
    IF k >= attempts
    THEN [st |-> st, status |-> "I2CError", val |-> NoneVal,
          attempts |-> attempts, cause |-> last_exc]
    ELSE after_attempt(fn, Attempt(fn, st), k, attempts, backoff)

after_attempt(fn, a, k, attempts, backoff) ==
    IF a.status = "ok"
    THEN [st |-> a.st, status |-> "ok", val |-> a.val,
          attempts |-> 0, cause |-> "None"]
    ELSE IF Caught(a.status)
    THEN with_retry_from(fn,
            IF ShouldBackoff(k, attempts, backoff)
            THEN sleep_ms(a.st, backoff) ELSE a.st,
            k + 1, attempts, backoff, a.status)
    ELSE [st |-> a.st, status |-> a.status, val |-> NoneVal,
          attempts |-> 0, cause |-> "None"]

with_retry(fn, st, r, backoff) ==
    with_retry_from(fn, st, 0, Attempts(r), backoff, "None")

\* what the attribute `last` holds after a successful operation
LastAfter(fn, val) ==
    IF fn.kind \in {"write1", "writen"} THEN NoneVal ELSE val

\* One I2CFlow operation (read1, readn, write1, writen, rmw, field_get),
\* lines 28-69: the retried function, then the assignment to `last`.
SetLast(fn, r) ==
    IF r.status = "ok" THEN [r EXCEPT !.st.last = LastAfter(fn, r.val)] ELSE r
flow_op(fn, st) == SetLast(fn, with_retry(fn, st, st.retries, st.backoff_ms))

\* the operation as a call, under the transport outcomes `script`
FlowCall(fn, r) ==
    /\ regs' = r.st.regs
    /\ trace' = r.st.trace
    /\ now' = r.st.now
    /\ last' = r.st.last
    /\ call' = [op |-> fn.kind, fn |-> fn, status |-> r.status,
                val |-> r.val, attempts |-> r.attempts,
                cause |-> r.cause, before |-> regs]
    /\ UNCHANGED <<flowvars, drvvars, appvars>>
FlowOp(fn, script) ==
    /\ call.op = "idle"
    /\ FlowCall(fn, flow_op(fn, Exec(script)))

\* retry(times, backoff_ms), lines 20-22
retry(times, ms) ==
    /\ call.op = "idle"
    /\ retries' = times
    /\ backoff_ms' = ms
    /\ UNCHANGED <<regs, last, call, trace, now, drvvars, appvars>>

\* wait_ms(ms), lines 24-26: the caller sleeps
Do_wait_ms(ms) ==
    /\ call.op = "idle"
    /\ now' = sleep_ms(Exec(<<>>), ms).now
    /\ trace' = sleep_ms(Exec(<<>>), ms).trace
    /\ UNCHANGED <<regs, flowvars, last, call, drvvars, appvars>>

----------------------------------------------------------------------------
(* AS3935 driver, lib/as3935.py.  A method is an operator from the         *)
(* execution state to its result: the state after it, and the value it     *)
(* returns (status "ok") or the exception it raises.                       *)

Min(a, b) == IF a < b THEN a ELSE b
Max(a, b) == IF a > b THEN a ELSE b

Raise(st, exc) == [st |-> st, status |-> exc, val |-> NoneVal]
Return(st, v) == [st |-> st, status |-> "ok", val |-> v]

\* the value of `return self`
Self == NoneVal

\* _int_code_to_src, lines 48-52: 1 lightning, 2 disturber, 3 noise, 0 none
int_code_to_src_noise_first(v) ==
    IF BitAnd(v, 1) # 0 THEN 3
    ELSE IF BitAnd(v, 4) # 0 THEN 2
    ELSE IF BitAnd(v, 8) # 0 THEN 1
    ELSE 0
int_code_to_src(v) ==
    IF BitAnd(v, 8) # 0 THEN 1
    ELSE IF BitAnd(v, 4) # 0 THEN 2
    ELSE IF BitAnd(v, 1) # 0 THEN 3
    ELSE 0

\* self._at().read1(reg): the result's val is <<byte>>
drv_read1(st, reg) == flow_op([kind |-> "read1", reg |-> reg], st)

\* _rmw, line 281
drv_rmw(st, reg, mask, shift, value) ==
    flow_op([kind |-> "rmw", reg |-> reg, mask |-> mask, shift |-> shift,
             value |-> value], st)

\* a setter's tail: `self._rmw(...); return self`
rmw_return_self(st, reg, mask, shift, value) ==
    SetVal(drv_rmw(st, reg, mask, shift, value), Self)

\* {v: k for k, v in m.items()}.get(code, None)
InverseGet(m, code) ==
    IF \E k \in DOMAIN m : m[k] = code
    THEN CHOOSE k \in DOMAIN m : m[k] = code
    ELSE NoneVal

\* the read1() calls of a method, in order, up to the first that raises: the
\* result's val is the bytes read
RECURSIVE read_regs(_, _, _)
after_read(q, rs, acc) ==
    IF q.status # "ok" THEN q
    ELSE read_regs(q.st, Tail(rs), Append(acc, q.val[1]))
read_regs(st, rs, acc) ==
    IF rs = <<>> THEN Return(st, acc)
    ELSE after_read(drv_read1(st, Head(rs)), rs, acc)

\* status(), lines 226-237: the snapshot decoded from the five bytes
StatusDict(r0, r1, r2, r3, r8) ==
    [powerdown |-> IF BitAnd(r0, BIT_POWERDOWN) # 0 THEN 1 ELSE 0,
     indoors |-> IF Shr(BitAnd(r0, MASK_AFE_GAIN), 1) = AFE_GAIN_INDOOR
                 THEN 1 ELSE 0,
     noise |-> Shr(BitAnd(r1, MASK_NOISE_FLOOR), 4),
     watchdog |-> Shr(BitAnd(r1, MASK_WATCHDOG), 0),
     spike_rej |-> Shr(BitAnd(r2, MASK_SPIKE_REJ), 0),
     min_strikes |-> InverseGet(MIN_LIGHTNING_MAP,
                                Shr(BitAnd(r2, MASK_MIN_STRIKES), 4)),
     mask_dist |-> IF BitAnd(r3, BIT_MASK_DIST) # 0 THEN 1 ELSE 0,
     lco_div |-> InverseGet(DIVIDER_MAP, Shr(BitAnd(r3, MASK_LCO_DIVIDER), 6)),
     tuning_cap_steps |-> BitAnd(r8, MASK_TUN_CAP),
     tuning_cap_pf |-> BitAnd(r8, MASK_TUN_CAP) * 8]
StatusOf(q) ==
    IF q.status # "ok" THEN q
    ELSE Return(q.st, StatusDict(q.val[1], q.val[2], q.val[3], q.val[4], q.val[5]))

\* status(), lines 213-237
status(st) ==
    StatusOf(read_regs(st, <<REG_AFE_GAIN, REG_NOISE_WATCHDOG, REG_SREJ_MINSTRK,
                             REG_IRQ_MASK_SRC, REG_DISPLAY_TUNING>>, <<>>))

\* setTuningCaps, line 326
TuningStepsUnclamped(cap_pf) == cap_pf \div 8
TuningSteps(cap_pf) == Max(0, Min(15, cap_pf \div 8))

\* setTuningCaps, lines 325-328
setTuningCaps(st, cap_pf) ==
    rmw_return_self(st, REG_DISPLAY_TUNING, MASK_TUN_CAP, 0, TuningSteps(cap_pf))

\* the range checks of the setters, lines 331, 335, 339, 343, 353
NoiseLevelOkAsWatchdog(level) == 0 <= level /\ level <= 15
NoiseLevelOk(level) == 0 <= level /\ level <= 7
WatchdogLevelOk(level) == 0 <= level /\ level <= 15
SpikeLevelOk(level) == 0 <= level /\ level <= 15
MinStrikesOk(n) == n \in DOMAIN MIN_LIGHTNING_MAP
DividerOk(div) == div \in DOMAIN DIVIDER_MAP

\* setNoiseFloorLvl, lines 330-332
setNoiseFloorLvlUnshifted(st, level) ==
    IF ~NoiseLevelOk(level) THEN Raise(st, "ValueError")
    ELSE rmw_return_self(st, REG_NOISE_WATCHDOG, MASK_NOISE_FLOOR, 0, level)
setNoiseFloorLvl(st, level) ==
    IF ~NoiseLevelOk(level) THEN Raise(st, "ValueError")
    ELSE rmw_return_self(st, REG_NOISE_WATCHDOG, MASK_NOISE_FLOOR, 4, level)

\* setWatchdogThreshold, lines 334-336
setWatchdogThreshold(st, level) ==
    IF ~WatchdogLevelOk(level) THEN Raise(st, "ValueError")
    ELSE rmw_return_self(st, REG_NOISE_WATCHDOG, MASK_WATCHDOG, 0, level)

\* setSpikeRejection, lines 338-340
setSpikeRejection(st, level) ==
    IF ~SpikeLevelOk(level) THEN Raise(st, "ValueError")
    ELSE rmw_return_self(st, REG_SREJ_MINSTRK, MASK_SPIKE_REJ, 0, level)

\* setMinNumLightnings, lines 342-344
setMinNumLightnings(st, n) ==
    IF ~MinStrikesOk(n) THEN Raise(st, "ValueError")
    ELSE rmw_return_self(st, REG_SREJ_MINSTRK, MASK_MIN_STRIKES, 4,
                         MIN_LIGHTNING_MAP[n])

\* clearStatistics, lines 346-350: bit 6 is set, cleared and set again
clearStatisticsAgain(r) ==
    IF r.status # "ok" THEN r
    ELSE rmw_return_self(r.st, REG_SREJ_MINSTRK, BIT_CLEAR_STATS, 6, 1)
clearStatisticsClear(r) ==
    IF r.status # "ok" THEN r
    ELSE clearStatisticsAgain(drv_rmw(r.st, REG_SREJ_MINSTRK, BIT_CLEAR_STATS, 6, 0))
clearStatistics(st) ==
    clearStatisticsClear(drv_rmw(st, REG_SREJ_MINSTRK, BIT_CLEAR_STATS, 6, 1))

\* antennaDivider, lines 352-354
antennaDivider(st, div) ==
    IF ~DividerOk(div) THEN Raise(st, "ValueError")
    ELSE rmw_return_self(st, REG_IRQ_MASK_SRC, MASK_LCO_DIVIDER, 6,
                         DIVIDER_MAP[div])

\* getInterruptSrc, lines 356-359
InterruptSrcOf(q) ==
    IF q.status # "ok" THEN q
    ELSE Return(q.st, int_code_to_src(BitAnd(q.val[1], MASK_IRQ_SRC)))
getInterruptSrc(st, wait_ms) ==
    InterruptSrcOf(drv_read1(IF wait_ms # 0 THEN sleep_ms(st, wait_ms) ELSE st,
                             REG_IRQ_MASK_SRC))

\* getLightningDistKm, line 361
DistanceOf(q) ==
    IF q.status # "ok" THEN q
    ELSE Return(q.st, BitAnd(q.val[1], MASK_DISTANCE))
getLightningDistKm(st) == DistanceOf(drv_read1(st, REG_DISTANCE))

\* getStrikeEnergyRaw, lines 365-366
EnergyUnmasked(l, m, h) == BitOr(BitOr(Shl(h, 16), Shl(m, 8)), l)
EnergyRaw(l, m, h) == BitOr(BitOr(Shl(BitAnd(h, 31), 16), Shl(m, 8)), l)

\* getStrikeEnergyRaw, lines 362-366
EnergyOf(q) ==
    IF q.status # "ok" THEN q
    ELSE Return(q.st, EnergyRaw(q.val[1], q.val[2], q.val[3]))
getStrikeEnergyRaw(st) ==
    EnergyOf(read_regs(st, <<REG_ENERGY_LSB, REG_ENERGY_MID, REG_ENERGY_MSB>>, <<>>))

\* the call before status(), without what preceded it
Flat(c) == IF c.op = "idle" THEN c ELSE [c EXCEPT !.prev = IdleCall]

\* A driver call `op(arg)` with result r: the caller sees the outcome, the
\* device and the clock are as the call left them.
DrvCall(op, arg, r) ==
    /\ regs' = r.st.regs
    /\ trace' = r.st.trace
    /\ now' = r.st.now
    /\ last' = r.st.last
    /\ log' = r.st.log
    /\ hist' = r.st.hist
    /\ irq_pending' = r.st.irq_pending
    /\ call' = [op |-> op, arg |-> arg, status |-> r.status, val |-> r.val,
                before |-> regs, notes |-> r.st.notes,
                prev |-> IF op = "status" THEN Flat(call) ELSE IdleCall]
    /\ app' = r.st.app
    /\ sink' = r.st.sink
    /\ UNCHANGED <<flowvars, log_cap, irq_pin, irq_last_ms, cb, pin_handler, irqlog, pc>>

Do_setTuningCaps(cap_pf, script) ==
    DrvCall("setTuningCaps", cap_pf, setTuningCaps(Exec(script), cap_pf))
Do_setNoiseFloorLvl(level, script) ==
    DrvCall("setNoiseFloorLvl", level, setNoiseFloorLvl(Exec(script), level))
Do_setWatchdogThreshold(level, script) ==
    DrvCall("setWatchdogThreshold", level, setWatchdogThreshold(Exec(script), level))
Do_setSpikeRejection(level, script) ==
    DrvCall("setSpikeRejection", level, setSpikeRejection(Exec(script), level))
Do_setMinNumLightnings(n, script) ==
    DrvCall("setMinNumLightnings", n, setMinNumLightnings(Exec(script), n))
Do_clearStatistics(script) ==
    DrvCall("clearStatistics", NoneVal, clearStatistics(Exec(script)))
Do_antennaDivider(div, script) ==
    DrvCall("antennaDivider", div, antennaDivider(Exec(script), div))
Do_status(script) ==
    DrvCall("status", NoneVal, status(Exec(script)))
Do_getInterruptSrc(wait_ms, script) ==
    DrvCall("getInterruptSrc", wait_ms, getInterruptSrc(Exec(script), wait_ms))
Do_getLightningDistKm(script) ==
    DrvCall("getLightningDistKm", NoneVal, getLightningDistKm(Exec(script)))
Do_getStrikeEnergyRaw(script) ==
    DrvCall("getStrikeEnergyRaw", NoneVal, getStrikeEnergyRaw(Exec(script)))

(***************************************************************************)
(* Event capture and the ring log, lib/as3935.py.  An optional integer is  *)
(* <<>> for None and <<n>> for n; an event is the dict read_event builds;  *)
(* a log is AS3935._log: not enabled for None, else its items oldest       *)
(* first.  `hist` keeps every event appended since the log was last        *)
(* emptied.                                                                *)
(***************************************************************************)
Some(n) == <<n>>

\* time.ticks_diff, on a clock that does not wrap within the bounds
ticks_diff(a, b) == a - b

\* the dict of read_event, lines 165-173
Event(ts, type, d, e, code_raw) ==
    [ts |-> ts, type |-> type, distance_km |-> d, energy |-> e,
     src_code |-> code_raw]

\* read_event, lines 166-169: the lightning branch
AfterEnergy(qe, d, ts, code_raw) ==
    IF qe.status # "ok" THEN qe
    ELSE Return(qe.st, Some(Event(ts, "lightning", Some(d), Some(qe.val), code_raw)))
AfterDistance(qd, ts, code_raw) ==
    IF qd.status # "ok" THEN qd
    ELSE AfterEnergy(getStrikeEnergyRaw(qd.st), qd.val, ts, code_raw)

\* read_event, lines 161-173
EventOfSrc(st, src, code_raw) ==
    IF src = 0 THEN Return(st, NoneVal)
    ELSE IF src = 1 THEN AfterDistance(getLightningDistKm(st), st.now, code_raw)
    ELSE IF src = 2
    THEN Return(st, Some(Event(st.now, "disturber", NoneVal, NoneVal, code_raw)))
    ELSE Return(st, Some(Event(st.now, "noise", NoneVal, NoneVal, code_raw)))
AfterCode(q) ==
    IF q.status # "ok" THEN q
    ELSE EventOfSrc(q.st, int_code_to_src(BitAnd(q.val[1], MASK_IRQ_SRC)),
                    BitAnd(q.val[1], MASK_IRQ_SRC))

\* read_event, lines 150-173
\* read_event once the settle time is over, lines 157 and 160-173
read_event_settled(st) == AfterCode(drv_read1(st, REG_IRQ_MASK_SRC))

read_event_no_settle(st, wait_ms) == read_event_settled(st)
read_event(st, wait_ms) ==
    read_event_settled(IF wait_ms # 0 THEN sleep_ms(st, wait_ms) ELSE st)

\* _append_log, lines 240-244, on the items of an enabled log
EvictNewest(items, cap) ==
    IF Len(items) > cap THEN SubSeq(items, 1, Len(items) - 1) ELSE items
Evict(items, cap) ==
    IF Len(items) > cap THEN Tail(items) ELSE items

\* _append_log, lines 241-242: with logging enabled the event is appended
log_append(st, ev) ==
    IF ~st.log.enabled THEN st
    ELSE [st EXCEPT !.log.items = Append(@, ev),
                    !.hist = Append(@, ev)]

\* _append_log, lines 243-244: a log longer than its capacity loses its
\* oldest event
log_evict(st) ==
    IF ~st.log.enabled THEN st
    ELSE [st EXCEPT !.log.items = Evict(@, log_cap)]

\* _append_log, lines 240-244
append_log(st, ev) == log_evict(log_append(st, ev))

\* self._cb(ev): the observer is called with the event; it returns, or
\* raises an Exception.  The call is noted with the log as the observer
\* finds it.
call_cb(st, ev) ==
    [st |-> [st EXCEPT !.notes = Append(@, [ev |-> ev, log |-> st.log.items])],
     status |-> IF st.cb = "raises" THEN "Exception" ELSE "ok",
     val |-> NoneVal]

\* lines 131 and 147: the exceptions caught around the observer's call
CallbackCaughtNone(exc) == FALSE
CallbackCaught(exc) == exc \in {"Exception", "OSError"}

\* lines 128-133 and 145-147: the observer, if one is set, inside try
AfterCallback(r) ==
    IF r.status = "ok" \/ CallbackCaught(r.status) THEN Return(r.st, NoneVal) ELSE r
notify(st, ev) ==
    IF st.cb = "none" THEN Return(st, NoneVal) ELSE AfterCallback(call_cb(st, ev))

\* lines 126-133 and 143-147: an event that was read is logged, then the
\* observer is told; the value is the event
AfterNotify(r, ev) == IF r.status # "ok" THEN r ELSE Return(r.st, Some(ev))
AfterReadEvent(r) ==
    IF r.status # "ok" \/ r.val = NoneVal THEN r
    ELSE AfterNotify(notify(append_log(r.st, r.val[1]), r.val[1]), r.val[1])

\* poll, lines 142-148
poll(st) == AfterReadEvent(read_event(st, 0))

\* len(range(n)): the rounds of `for _ in range(n)`
RangeLen(n) == Max(0, n)

\* a[i:] of Python, for a list a and an integer i
SliceFrom(a, i) ==
    SubSeq(a, (IF i < 0 THEN Max(Len(a) + i, 0) ELSE Min(i, Len(a))) + 1, Len(a))

\* get_log, lines 80-86; count is an optional integer
get_log(st, count) ==
    IF ~st.log.enabled THEN Return(st, <<>>)
    ELSE IF count = NoneVal \/ count[1] >= Len(st.log.items)
    THEN Return(st, st.log.items)
    ELSE Return(st, SliceFrom(st.log.items, -count[1]))

\* clear_log, lines 75-78
clear_log(st) ==
    IF st.log.enabled
    THEN Return([st EXCEPT !.log.items = <<>>, !.hist = <<>>], Self)
    ELSE Return(st, Self)

\* status() and poll() on a device whose latch is cleared by a read
Dev_status(script) == DrvCall("status", NoneVal, status(ExecDev(script)))
Dev_poll(script) == DrvCall("poll", NoneVal, poll(ExecDev(script)))
Do_read_event(wait_ms, script) ==
    DrvCall("read_event", wait_ms, read_event(Exec(script), wait_ms))
Do_poll(script) == DrvCall("poll", NoneVal, poll(Exec(script)))
Do_get_log(count) == DrvCall("get_log", count, get_log(Exec(<<>>), count))
Do_clear_log == DrvCall("clear_log", NoneVal, clear_log(Exec(<<>>)))

\* enable_logging, lines 69-73
Do_enable_logging(capacity) ==
    /\ log_cap' = Max(1, capacity)
    /\ log' = [enabled |-> TRUE, items |-> <<>>]
    /\ hist' = <<>>
    /\ trace' = <<>>
    /\ call' = [op |-> "enable_logging", arg |-> capacity, status |-> "ok",
                val |-> Self, before |-> regs, prev |-> IdleCall]
    /\ UNCHANGED <<regs, flowvars, last, now, irq_pin, irq_pending, irq_last_ms,
                   cb, pin_handler, irqlog, appvars>>

\* set_callback, lines 88-91; the observer is given by what it does
Do_set_callback(c) ==
    /\ cb' = c
    /\ trace' = <<>>
    /\ call' = [op |-> "set_callback", arg |-> c, status |-> "ok",
                val |-> Self, before |-> regs, prev |-> IdleCall]
    /\ UNCHANGED <<regs, flowvars, last, now, log, log_cap, irq_pin, irq_pending,
                   irq_last_ms, hist, pin_handler, irqlog, appvars>>

\* what is added to the history of edges, consumptions, reads and
\* re-attachments when the specification keeps one
Note(note, e) == IF note THEN Append(irqlog, e) ELSE irqlog

\* attach_irq, statement by statement: a handler registered by an earlier
\* attach_irq is on the pin until line 109 and can run between two
\* statements.  pc.step is the statement attach_irq is at.

\* line 98: the call, and the pin is kept
Do_attach_irq ==
    /\ pc = [at |-> "idle"]
    /\ irq_pin' = TRUE
    /\ pc' = [at |-> "attach", step |-> "pending"]
    /\ UNCHANGED <<regs, flowvars, last, call, trace, now, log, log_cap, irq_pending,
                   irq_last_ms, hist, cb, pin_handler, irqlog, app, sink>>

\* line 99; the history notes whether a capture was pending
AttachClear(note) ==
    /\ pc = [at |-> "attach", step |-> "pending"]
    /\ irq_pending' = FALSE
    /\ irqlog' = Note(note, [k |-> "attach", t |-> now, was |-> irq_pending])
    /\ pc' = [pc EXCEPT !.step = "last"]
    /\ UNCHANGED <<regs, flowvars, last, call, trace, now, log, log_cap, irq_pin,
                   irq_last_ms, hist, cb, pin_handler, app, sink>>

\* line 100
AttachReset ==
    /\ pc = [at |-> "attach", step |-> "last"]
    /\ irq_last_ms' = 0
    /\ pc' = [pc EXCEPT !.step = "register"]
    /\ UNCHANGED <<regs, flowvars, last, call, trace, now, log, log_cap, irq_pin,
                   irq_pending, hist, cb, pin_handler, irqlog, app, sink>>

\* lines 109-110: the handler is registered and attach_irq returns
AttachReturn ==
    /\ pc = [at |-> "attach", step |-> "register"]
    /\ pin_handler' = "driver"
    /\ pc' = [at |-> "idle"]
    /\ call' = [op |-> "attach_irq", arg |-> NoneVal, status |-> "ok",
                val |-> Self, before |-> regs, prev |-> IdleCall]
    /\ trace' = <<>>
    /\ UNCHANGED <<regs, flowvars, last, now, log, log_cap, irq_pin,
                   irq_pending, irq_last_ms, hist, cb, irqlog, app, sink>>

\* line 105: an edge is taken when nothing is pending or the last recorded
\* edge is more than DebounceWindow ms old
DebounceWindow == 3
\* line 122: service() takes a pending capture when the last recorded edge
\* is at least Dwell ms old
Dwell == 2

\* _isr, lines 103-107: pending and the last-edge time after an edge at t
isr_toggle(pending, last_ms, t) ==
    IF ~pending \/ ticks_diff(t, last_ms) > DebounceWindow
    THEN [pending |-> TRUE, last_ms |-> t]
    ELSE [pending |-> FALSE, last_ms |-> last_ms]
isr_rearm(pending, last_ms, t) ==
    [pending |-> TRUE, last_ms |-> t]
isr(pending, last_ms, t) ==
    IF ~pending \/ ticks_diff(t, last_ms) > DebounceWindow
    THEN [pending |-> TRUE, last_ms |-> t]
    ELSE [pending |-> pending, last_ms |-> last_ms]

\* _isr, lines 102-107: a rising edge on the attached pin runs the handler
IsrEffect ==
    /\ pin_handler = "driver"
    /\ irq_pending' = isr(irq_pending, irq_last_ms, now).pending
    /\ irq_last_ms' = isr(irq_pending, irq_last_ms, now).last_ms
    /\ UNCHANGED <<regs, flowvars, last, call, trace, now, log, log_cap, irq_pin, hist,
                   cb, pin_handler, appvars>>

\* an edge between two calls
Isr == IsrEffect /\ UNCHANGED irqlog

\* an edge at any point, noted in the history
Edge == IsrEffect /\ irqlog' = Append(irqlog, [k |-> "edge", t |-> now])

\* service(), statement by statement, so that an edge can arrive between two
\* statements and during the settle time of read_event.  pc.step is the
\* statement service() is at: the test of _irq_pending (line 119), the dwell
\* test (line 122), the clearing of _irq_pending (line 124), the call of
\* read_event (line 125), its sleep (line 159), and the rest of the round
\* (lines 160-173 and 126-134).

\* lines 116-118: the call, up to the loop
SvcCall(max_events) ==
    /\ pc = [at |-> "idle"]
    /\ pc' = [at |-> "service", step |-> "pending", n |-> RangeLen(max_events),
              events |-> <<>>, arg |-> max_events, notes |-> <<>>, wake |-> 0]
    /\ trace' = <<>>
    /\ UNCHANGED <<regs, flowvars, last, call, now, drvvars, app, sink>>

\* line 135, and the breaks of lines 120 and 123: service() returns
SvcReturn ==
    /\ pc' = [at |-> "idle"]
    /\ call' = [op |-> "service", arg |-> pc.arg, status |-> "ok",
                val |-> pc.events, before |-> regs, notes |-> pc.notes,
                prev |-> IdleCall]
    /\ UNCHANGED <<regs, flowvars, last, trace, now, drvvars, app, sink>>

\* lines 118-120: the loop ends after max_events rounds or when nothing is
\* pending
SvcTestPending ==
    /\ pc.at = "service" /\ pc.step = "pending"
    /\ IF pc.n = 0 \/ ~irq_pending THEN SvcReturn
       ELSE /\ pc' = [pc EXCEPT !.step = "dwell"]
            /\ UNCHANGED <<regs, flowvars, last, call, trace, now, drvvars, app, sink>>

\* lines 122-123: the dwell test
SvcTestDwell ==
    /\ pc.at = "service" /\ pc.step = "dwell"
    /\ IF ticks_diff(now, irq_last_ms) < Dwell THEN SvcReturn
       ELSE /\ pc' = [pc EXCEPT !.step = "clear"]
            /\ UNCHANGED <<regs, flowvars, last, call, trace, now, drvvars, app, sink>>

\* line 124: the capture is consumed; the history notes the time and the
\* last recorded edge
SvcClearKeeps(note) ==
    /\ pc.at = "service" /\ pc.step = "clear"
    /\ irq_pending' = irq_pending
    /\ irqlog' = Note(note, [k |-> "clear", t |-> now, last |-> irq_last_ms])
    /\ pc' = [pc EXCEPT !.step = "settle"]
    /\ UNCHANGED <<regs, flowvars, last, call, trace, now, log, log_cap, irq_pin,
                   irq_last_ms, hist, cb, pin_handler, app, sink>>
SvcClear(note) ==
    /\ pc.at = "service" /\ pc.step = "clear"
    /\ irq_pending' = FALSE
    /\ irqlog' = Note(note, [k |-> "clear", t |-> now, last |-> irq_last_ms])
    /\ pc' = [pc EXCEPT !.step = "settle"]
    /\ UNCHANGED <<regs, flowvars, last, call, trace, now, log, log_cap, irq_pin,
                   irq_last_ms, hist, cb, pin_handler, app, sink>>

\* read_event's wait_ms as service() calls it, line 125
SettleMs == 2

\* lines 125 and 158-159: read_event() is called and begins its sleep, which
\* ends when the clock reaches pc.wake
SvcSettle ==
    /\ pc.at = "service" /\ pc.step = "settle"
    /\ trace' = Append(trace, [op |-> "sleep", ms |-> SettleMs])
    /\ pc' = [pc EXCEPT !.step = "sleep", !.wake = now + SettleMs]
    /\ UNCHANGED <<regs, flowvars, last, call, now, drvvars, app, sink>>

\* the main thread is in a time.sleep_ms() that ends at pc.wake
Asleep == pc.at # "idle" /\ pc.step = "sleep"
Sleeping == Asleep /\ now < pc.wake

\* line 118: the rounds left of `for _ in range(max_events)` after a round
RoundsLeftSame(n) == n
RoundsLeft(n) == n - 1

\* lines 160-173 and 126-134: the interrupt source is read, the event is
\* built, logged, told to the observer and kept; an exception leaves
\* service().  The history notes the time of the read.
SvcReadDone(r, note) ==
    /\ regs' = r.st.regs
    /\ trace' = trace \o r.st.trace
    /\ now' = r.st.now
    /\ last' = r.st.last
    /\ log' = r.st.log
    /\ hist' = r.st.hist
    /\ irqlog' = Note(note, [k |-> "read", t |-> now])
    /\ IF r.status = "ok"
       THEN /\ pc' = [pc EXCEPT !.step = "pending", !.n = RoundsLeft(@),
                                !.events = IF r.val = NoneVal THEN @
                                           ELSE Append(@, r.val[1]),
                                !.notes = @ \o r.st.notes, !.wake = 0]
            /\ UNCHANGED call
       ELSE /\ pc' = [at |-> "idle"]
            /\ call' = [op |-> "service", arg |-> pc.arg, status |-> r.status,
                        val |-> r.val, before |-> regs,
                        notes |-> pc.notes \o r.st.notes, prev |-> IdleCall]
    /\ UNCHANGED <<flowvars, log_cap, irq_pin, irq_pending, irq_last_ms, cb,
                   pin_handler, app, sink>>
SvcRead(script, note) ==
    /\ pc.at = "service" /\ pc.step = "sleep"
    /\ now >= pc.wake
    /\ SvcReadDone(AfterReadEvent(read_event_settled(Exec(script))), note)

\* a millisecond passes; a sleep ends when its time is over
Tick ==
    /\ Asleep => now < pc.wake
    /\ now' = now + 1
    /\ UNCHANGED <<cb, pin_handler, irqlog, appvars>>
    /\ UNCHANGED <<regs, flowvars, last, call, trace, log, log_cap, irq_pin,
                   irq_pending, irq_last_ms, hist>>

(***************************************************************************)
(* The application, app_as3935.py.  The publish sink is the MQTT client    *)
(* given to the application: publish() delivers the state it is given or   *)
(* raises.  A published state is the payload of _publish_state without its *)
(* wall-clock timestamp.  `sink` holds the state last delivered and, for   *)
(* the events handed to publish() since start(), the kind of the last one  *)
(* and the time of the last one of each kind.                              *)
(***************************************************************************)

\* _log_cap of the application, line 28
AppLogCap == 256

\* the sink before anything is published
NoSink == [state |-> NoneVal, fwd_kind |-> 0, fwd_ms |-> [k \in 1 .. 3 |-> NoneVal]]

\* x or 0, for an optional integer x
OrZero(x) == IF x = NoneVal THEN 0 ELSE x[1]

\* the payload of _publish_state, lines 209-216
Payload(alert_on, distance, energy, is_disturber, is_noise) ==
    [alert |-> IF alert_on THEN "ON" ELSE "OFF",
     distance |-> distance,
     energy |-> energy,
     disturber |-> IF is_disturber THEN "true" ELSE "false",
     noise |-> IF is_noise THEN "true" ELSE "false"]

\* the kind of event a published state reports: 1 lightning, 2 disturber,
\* 3 noise, 0 for the neutral state
KindOf(payload) ==
    IF payload.alert = "ON" THEN 1
    ELSE IF payload.disturber = "true" THEN 2
    ELSE IF payload.noise = "true" THEN 3
    ELSE 0

\* what the sink has been handed, after publish(payload) at time t.  A
\* publish() left by a keyboard interrupt has handed nothing: an interrupt
\* that arrives once the sink has taken the state is one that arrives after
\* publish() has returned.
Forwarded(s, payload, t, res) ==
    IF res = "KeyboardInterrupt" THEN s
    ELSE [state |-> IF res = "ok" THEN Some(payload) ELSE s.state,
          fwd_kind |-> IF KindOf(payload) # 0 THEN KindOf(payload) ELSE s.fwd_kind,
          fwd_ms |-> IF KindOf(payload) # 0
                     THEN [s.fwd_ms EXCEPT ![KindOf(payload)] = Some(t)]
                     ELSE s.fwd_ms]

NextPubOutcome(st) == IF st.pscript = <<>> THEN "ok" ELSE Head(st.pscript)

\* self._mqtt.publish(topic, payload, retain), line 218
publish(st, payload, retain) ==
    [st |-> [st EXCEPT
                !.pscript = IF st.pscript = <<>> THEN <<>> ELSE Tail(st.pscript),
                !.pubs = Append(@, [payload |-> payload, retain |-> retain,
                                    res |-> NextPubOutcome(st)]),
                !.sink = Forwarded(@, payload, st.now, NextPubOutcome(st))],
     status |-> NextPubOutcome(st),
     val |-> NoneVal]

\* line 219: the exceptions _publish_state catches.  A KeyboardInterrupt that
\* arrives while publish() runs is no Exception: it leaves _publish_state.
PublishCaughtNone(exc) == FALSE
PublishCaught(exc) == exc \in {"Exception", "OSError"}

\* _publish_state, lines 217-220: the try statement
AfterPublish(r) ==
    IF r.status = "ok" \/ PublishCaught(r.status) THEN Return(r.st, NoneVal) ELSE r

\* _publish_state, lines 205-220
publish_state(st, alert_on, distance, energy, is_disturber, is_noise, retain) ==
    IF ~st.app.mqtt THEN Return(st, NoneVal)
    ELSE AfterPublish(publish(st, Payload(alert_on, distance, energy,
                                          is_disturber, is_noise), retain))

\* AS3935App._append_log, line 200: the event is appended
app_log_append(st, ev) == [st EXCEPT !.app.log = Append(@, ev)]

\* AS3935App._append_log, lines 201-202: a list longer than its capacity
\* loses its oldest event
app_log_evict(st) == [st EXCEPT !.app.log = Evict(@, AppLogCap)]

\* AS3935App._append_log, lines 199-202
app_append_log(st, ev) == app_log_evict(app_log_append(st, ev))

\* AS3935App.service, line 190: a pending capture is taken when the last
\* recorded edge is at least AppDwell ms old
AppDwell == 2

\* AS3935App.service, line 193: read_event is called on the sensor with no
\* settle time.  With no sensor (None) the call raises AttributeError before
\* any transfer.
app_read(st) ==
    IF ~st.app.sensor THEN Raise(st, "AttributeError")
    ELSE read_event(st, 0)

\* step, lines 100-101: the polled capture, as a list
AfterRunPoll(q) ==
    IF q.status # "ok" THEN q
    ELSE IF q.val = NoneVal THEN Return(q.st, <<>>)
    ELSE Return(q.st, <<q.val[1]>>)
run_poll(st) == AfterRunPoll(poll(st))

\* run, lines 127 and 134: whether a disturber or noise event is forwarded
ThrottlePass(now_ms, last_ms, window, last_src, kind) ==
    ticks_diff(now_ms, last_ms) >= window \/ last_src # kind

\* run, lines 126-128 and 133-135: a disturber or a noise event is handed to
\* _publish_state when it passes the throttle; the value tells whether
\* _publish_state was called
handle_throttled(st, ev, now_ms) ==
    IF ev.type = "disturber"
    THEN IF ThrottlePass(now_ms, st.app.last_dist_ms, st.app.throttle_dist_ms,
                         st.app.last_src, 2)
         THEN SetVal(publish_state(st, FALSE, 0, 0, TRUE, FALSE, TRUE), TRUE)
         ELSE Return(st, FALSE)
    ELSE IF ev.type = "noise"
    THEN IF ThrottlePass(now_ms, st.app.last_noise_ms, st.app.throttle_noise_ms,
                         st.app.last_src, 3)
         THEN SetVal(publish_state(st, FALSE, 0, 0, FALSE, TRUE, TRUE), TRUE)
         ELSE Return(st, FALSE)
    ELSE Return(st, FALSE)

\* run, lines 119-122, 126-128 and 133-135: an event is dispatched on its
\* type, up to the return of _publish_state; the value tells whether
\* _publish_state was called
handle_event_lightning_once(st, ev, now_ms) ==
    IF ev.type = "lightning"
    THEN IF st.app.last_src # 1
         THEN SetVal(publish_state(st, TRUE, OrZero(ev.distance_km),
                                   OrZero(ev.energy), FALSE, FALSE, TRUE), TRUE)
         ELSE Return(st, FALSE)
    ELSE handle_throttled(st, ev, now_ms)
handle_event(st, ev, now_ms) ==
    IF ev.type = "lightning"
    THEN SetVal(publish_state(st, TRUE, OrZero(ev.distance_km),
                              OrZero(ev.energy), FALSE, FALSE, TRUE), TRUE)
    ELSE handle_throttled(st, ev, now_ms)

\* run, lines 129 and 136: the time of the disturber or noise event handed to
\* _publish_state
update_ms(a, ev, now_ms) ==
    IF ev.type = "disturber" THEN [a EXCEPT !.last_dist_ms = now_ms]
    ELSE IF ev.type = "noise" THEN [a EXCEPT !.last_noise_ms = now_ms]
    ELSE a

\* run, lines 123, 130 and 137: the kind of the event handed to
\* _publish_state
update_src(a, ev) ==
    [a EXCEPT !.last_src = IF ev.type = "lightning" THEN 1
                           ELSE IF ev.type = "disturber" THEN 2 ELSE 3]

\* run, line 142: whether a keepalive is due
KeepaliveDue(now_ms, last_ms, interval) == ticks_diff(now_ms, last_ms) >= interval

\* run, lines 142-143: the neutral state is handed to _publish_state when the
\* keepalive is due; the value tells whether _publish_state was called
keepalive(st, now_ms) ==
    IF KeepaliveDue(now_ms, st.app.last_keepalive_ms, st.app.keepalive_ms)
    THEN SetVal(publish_state(st, FALSE, 0, 0, FALSE, FALSE, TRUE), TRUE)
    ELSE Return(st, FALSE)

\* a method after another: the second runs when the first returns
Then(r, Op(_)) == IF r.status # "ok" THEN r ELSE Op(r.st)

\* self._at().write1(reg, val)
drv_write1(st, reg, val) ==
    flow_op([kind |-> "write1", reg |-> reg, value |-> val], st)

\* begin, lines 286-291
AfterBeginRead(q) == IF q.status = "ok" THEN Return(q.st, 0) ELSE Return(q.st, -1)
begin(st) == AfterBeginRead(drv_read1(st, REG_DISTANCE))

\* setIRQOutputSource, lines 316-323
setIRQOutputSource(st, src) ==
    Then(Then(Then(drv_rmw(st, REG_DISPLAY_TUNING, BIT_DISP_LCO, 7, 0),
                   LAMBDA s : drv_rmw(s, REG_DISPLAY_TUNING, BIT_DISP_SRCO, 6, 0)),
              LAMBDA s : drv_rmw(s, REG_DISPLAY_TUNING, BIT_DISP_TRCO, 5, 0)),
         LAMBDA s :
            IF src = 1 THEN rmw_return_self(s, REG_DISPLAY_TUNING, BIT_DISP_LCO, 7, 1)
            ELSE IF src = 2 THEN rmw_return_self(s, REG_DISPLAY_TUNING, BIT_DISP_SRCO, 6, 1)
            ELSE IF src = 3 THEN rmw_return_self(s, REG_DISPLAY_TUNING, BIT_DISP_TRCO, 5, 1)
            ELSE Return(s, Self))

\* defInit, line 296, and calibrate, line 368: the time the oscillators are
\* given, in ms
CalibMs == 3

\* defInit, lines 294-295: the two direct commands before the sleep
defInitPreset(st) ==
    Then(drv_write1(st, REG_PRESET_DEFAULT, 150),
         LAMBDA s : drv_write1(s, REG_CALIB_RCO, 150))

\* defInit, lines 297-298: after the sleep
defInitSettled(st) == setIRQOutputSource(st, 0)

\* defInit, lines 293-298, when nothing else runs during its sleep
defInit(st) ==
    Then(defInitPreset(st), LAMBDA s : defInitSettled(sleep_ms(s, CalibMs)))

\* calibrate, line 368, when nothing else runs during its sleep; it returns
\* None
AfterCalibWrite(w) ==
    IF w.status # "ok" THEN w ELSE Return(sleep_ms(w.st, CalibMs), NoneVal)
calibrate(st) == AfterCalibWrite(drv_write1(st, REG_CALIB_RCO, 150))

\* powerUp, lines 300-304
AfterPowerUpRead(q) ==
    IF q.status # "ok" THEN q
    ELSE SetVal(drv_write1(q.st, REG_AFE_GAIN, BitAndNot(q.val[1], BIT_POWERDOWN)),
                Self)
powerUp(st) == AfterPowerUpRead(drv_read1(st, REG_AFE_GAIN))

\* powerDown, lines 306-310
AfterPowerDownRead(q) ==
    IF q.status # "ok" THEN q
    ELSE SetVal(drv_write1(q.st, REG_AFE_GAIN, BitOr(q.val[1], BIT_POWERDOWN)),
                Self)
powerDown(st) == AfterPowerDownRead(drv_read1(st, REG_AFE_GAIN))

\* setIndoors, setOutdoors, disturberEn, lines 312-314
setIndoors(st) == rmw_return_self(st, REG_AFE_GAIN, MASK_AFE_GAIN, 1, AFE_GAIN_INDOOR)
setOutdoors(st) == rmw_return_self(st, REG_AFE_GAIN, MASK_AFE_GAIN, 1, AFE_GAIN_OUTDOOR)
disturberEn(st, enable) ==
    rmw_return_self(st, REG_IRQ_MASK_SRC, BIT_MASK_DIST, 5, IF enable THEN 0 ELSE 1)

\* indoors, line 369
indoors(st, enable) == IF enable THEN setIndoors(st) ELSE setOutdoors(st)

\* A configuration dict, by the AS3935_* keys the driver reads: each is an
\* optional value, None for a key the dict does not hold.  DefaultCfg is the
\* dict {}.
DefaultCfg ==
    [indoors |-> NoneVal, tuning_cap_pf |-> NoneVal, noise |-> NoneVal,
     wdth |-> NoneVal, srej |-> NoneVal, min_n |-> NoneVal, mask_dist |-> NoneVal]

\* cfg.get(key, default), for the optional value v of the key
CfgGet(v, default) == IF v = NoneVal THEN default ELSE v[1]

\* from_config, lines 254-266, after defInit: the configuration of a device
\* that answers
configure(st, cfg) ==
    Then(Then(Then(Then(Then(Then(Then(Then(Then(
        powerUp(st),
        LAMBDA s : indoors(s, CfgGet(cfg.indoors, TRUE))),
        LAMBDA s : setIRQOutputSource(s, 0)),
        LAMBDA s : setTuningCaps(s, CfgGet(cfg.tuning_cap_pf, 96))),
        LAMBDA s : setNoiseFloorLvl(s, CfgGet(cfg.noise, 2))),
        LAMBDA s : setWatchdogThreshold(s, CfgGet(cfg.wdth, 2))),
        LAMBDA s : setSpikeRejection(s, CfgGet(cfg.srej, 2))),
        LAMBDA s : IF MinStrikesOk(CfgGet(cfg.min_n, 1))
                   THEN setMinNumLightnings(s, CfgGet(cfg.min_n, 1))
                   ELSE Return(s, Self)),
        LAMBDA s : disturberEn(s, ~CfgGet(cfg.mask_dist, FALSE))),
        LAMBDA s : Return(s, Self))

\* apply_config, lines 268-278: a setter is called for the keys the dict
\* holds; the gain is set and the strike count is tested in every case.
\* The bus has one device: the address key is not among the keys.
apply_config(st, cfg) ==
    Then(Then(Then(Then(Then(Then(Then(
        indoors(st, CfgGet(cfg.indoors, TRUE)),
        LAMBDA s : IF cfg.tuning_cap_pf # NoneVal
                   THEN setTuningCaps(s, cfg.tuning_cap_pf[1]) ELSE Return(s, Self)),
        LAMBDA s : IF cfg.noise # NoneVal
                   THEN setNoiseFloorLvl(s, cfg.noise[1]) ELSE Return(s, Self)),
        LAMBDA s : IF cfg.wdth # NoneVal
                   THEN setWatchdogThreshold(s, cfg.wdth[1]) ELSE Return(s, Self)),
        LAMBDA s : IF cfg.srej # NoneVal
                   THEN setSpikeRejection(s, cfg.srej[1]) ELSE Return(s, Self)),
        LAMBDA s : IF MinStrikesOk(CfgGet(cfg.min_n, 1))
                   THEN setMinNumLightnings(s, CfgGet(cfg.min_n, 1))
                   ELSE Return(s, Self)),
        LAMBDA s : IF cfg.mask_dist # NoneVal
                   THEN disturberEn(s, ~cfg.mask_dist[1]) ELSE Return(s, Self)),
        LAMBDA s : Return(s, Self))

\* the set-up methods of the driver, as called
Do_begin(script) == DrvCall("begin", NoneVal, begin(Exec(script)))
Do_defInit(script) == DrvCall("defInit", NoneVal, defInit(Exec(script)))
Do_calibrate(script) == DrvCall("calibrate", NoneVal, calibrate(Exec(script)))
Do_powerUp(script) == DrvCall("powerUp", NoneVal, powerUp(Exec(script)))
Do_powerDown(script) == DrvCall("powerDown", NoneVal, powerDown(Exec(script)))
Do_setIndoors(script) == DrvCall("setIndoors", NoneVal, setIndoors(Exec(script)))
Do_setOutdoors(script) == DrvCall("setOutdoors", NoneVal, setOutdoors(Exec(script)))
Do_indoors(enable, script) == DrvCall("indoors", enable, indoors(Exec(script), enable))
Do_disturberEn(enable, script) ==
    DrvCall("disturberEn", enable, disturberEn(Exec(script), enable))
Do_setIRQOutputSource(src, script) ==
    DrvCall("setIRQOutputSource", src, setIRQOutputSource(Exec(script), src))
Do_apply_config(cfg, script) ==
    DrvCall("apply_config", cfg, apply_config(Exec(script), cfg))

\* I2CFlow.__init__, lines 9-14: the bus object AS3935.__init__ makes for a
\* new driver (line 57)
NewFlow(st) == [st EXCEPT !.retries = 0, !.backoff_ms = 0, !.last = NoneVal]

\* from_config, lines 250-254, and defInit, lines 294-295, on a new driver
\* object: up to the sleep of defInit.  The value is -1 when begin() found
\* no device and from_config has returned, 0 when defInit is about to sleep.
AfterBegin(b) ==
    IF b.val # 0 THEN Return(b.st, -1) ELSE SetVal(defInitPreset(b.st), 0)
from_config_begin(st) == AfterBegin(begin(NewFlow(st)))

\* defInit, lines 297-298, and from_config, lines 254-266: after the sleep
from_config_settled(st, cfg) ==
    Then(defInitSettled(st), LAMBDA s : configure(s, cfg))

\* from_config, lines 248-266, when nothing else runs during the sleep of
\* defInit
AfterFromConfigBegin(b, cfg) ==
    IF b.status # "ok" \/ b.val # 0 THEN SetVal(b, Self)
    ELSE from_config_settled(sleep_ms(b.st, CalibMs), cfg)
from_config(st, cfg) == AfterFromConfigBegin(from_config_begin(st), cfg)
Do_from_config(cfg, script) ==
    DrvCall("from_config", cfg, from_config(Exec(script), cfg))

\* an execution state with the sink's outcomes scripted too
ExecP(script, pscript) == [Exec(script) EXCEPT !.pscript = pscript]

\* no call of the application is in progress
IdlePc == [at |-> "idle"]

\* what a call finds: the application, the sink, the registers and the
\* events the driver has logged
Before == [app |-> app, sink |-> sink, regs |-> regs, hist |-> hist]

\* what the caller of an application call observes: the outcome and the
\* publish() calls made, with what the call found
Outcome(op, arg, res, val, pubs, before) ==
    [op |-> op, arg |-> arg, status |-> res, val |-> val, pubs |-> pubs,
     before_app |-> before.app, before_sink |-> before.sink,
     before |-> before.regs, before_hist |-> before.hist, prev |-> IdleCall]

\* the device, the clock, the driver and the application as st has them
AppState(st) ==
    /\ regs' = st.regs
    /\ now' = st.now
    /\ last' = st.last
    /\ log' = st.log
    /\ hist' = st.hist
    /\ irq_pending' = st.irq_pending
    /\ app' = st.app
    /\ sink' = st.sink
    /\ UNCHANGED <<flowvars, log_cap, irq_pin, irq_last_ms, cb, pin_handler, irqlog>>

\* a step of an application call in progress: its transfers are added to
\* the trace of the call
AppStep(st) == AppState(st) /\ trace' = trace \o st.trace

\* An application call `op(arg)` made in one step, with result r.
AppCall(op, arg, r, nextpc) ==
    /\ AppState(r.st)
    /\ trace' = r.st.trace
    /\ pc' = nextpc
    /\ call' = Outcome(op, arg, r.status, r.val, r.st.pubs, Before)

\* Pin.irq(handler=h): the pin holds one handler, the one registered last
pin_irq(held, h) == h

(***************************************************************************)
(* start(), in steps: from_config sleeps in defInit, and attach_irq is a   *)
(* sequence of statements; the handler the pin holds can run during the    *)
(* sleep and between two statements.  pc.step is where start() is: in the  *)
(* sleep of defInit, at a statement of attach_irq, or at line 68.          *)
(***************************************************************************)

\* an exception raised by from_config leaves start(): no sensor is assigned
StartRaise(arg, before, tr, r) ==
    /\ regs' = r.st.regs
    /\ now' = r.st.now
    /\ trace' = tr \o r.st.trace
    /\ pc' = IdlePc
    /\ call' = Outcome("start", arg, r.status, r.val, <<>>, before)
    /\ UNCHANGED <<flowvars, last, drvvars, app, sink>>

\* lines 59-60 and 63-66: the driver object from_config returned becomes the
\* sensor, with its own bus object and its fields as __init__ set them, and
\* logging is enabled (enable_logging, lines 69-73); a handler of the
\* replaced driver stays on the pin.  With a pin, attach_irq is called and
\* keeps it (line 171).
StartAssign(arg, before, tr, st) ==
    /\ regs' = st.regs
    /\ now' = st.now
    /\ trace' = tr \o st.trace
    /\ retries' = st.retries
    /\ backoff_ms' = st.backoff_ms
    /\ last' = st.last
    /\ log' = [enabled |-> TRUE, items |-> <<>>]
    /\ hist' = <<>>
    /\ log_cap' = Max(1, AppLogCap)
    /\ irq_pin' = FALSE
    /\ irq_pending' = FALSE
    /\ irq_last_ms' = 0
    /\ cb' = "none"
    /\ pin_handler' = IF pin_handler = "driver" THEN "stale" ELSE pin_handler
    /\ app' = [app EXCEPT !.sensor = TRUE, !.irq_pin = @ \/ arg.irq]
    /\ pc' = [at |-> "start", step |-> IF arg.irq THEN "pending" ELSE "finish",
              wake |-> 0, arg |-> arg, last |-> NoneVal, before |-> before]
    /\ UNCHANGED <<call, irqlog, sink>>

\* defInit, line 296: the sleep begins; the new bus object's `last` is kept
\* until the driver is assigned
StartSleep(arg, st) ==
    /\ regs' = st.regs
    /\ now' = st.now
    /\ trace' = Append(st.trace, [op |-> "sleep", ms |-> CalibMs])
    /\ pc' = [at |-> "start", step |-> "sleep", wake |-> st.now + CalibMs,
              arg |-> arg, last |-> st.last, before |-> Before]
    /\ UNCHANGED <<flowvars, last, call, drvvars, app, sink>>

\* start, lines 42-59, with from_config up to the sleep of defInit
StartCall(arg, r) ==
    IF r.status # "ok" THEN StartRaise(arg, Before, <<>>, r)
    ELSE IF r.val # 0 THEN StartAssign(arg, Before, <<>>, r.st)
    ELSE StartSleep(arg, r.st)
Do_start(cfg, irq, mqtt, script) ==
    /\ pc = IdlePc
    /\ StartCall([cfg |-> cfg, irq |-> irq, mqtt |-> mqtt],
                 from_config_begin(Exec(script)))

\* the sleep of defInit is over: the rest of defInit and of from_config
StartConfigured(r) ==
    IF r.status # "ok" THEN StartRaise(pc.arg, pc.before, trace, r)
    ELSE StartAssign(pc.arg, pc.before, trace, r.st)
StartConfigure(script) ==
    /\ pc.at = "start" /\ pc.step = "sleep"
    /\ now >= pc.wake
    /\ StartConfigured(from_config_settled(
            [NewFlow(Exec(script)) EXCEPT !.last = pc.last], pc.arg.cfg))

\* start, lines 68-77: the sink when one is given, and the timers
finished(st, mqtt) ==
    [st EXCEPT
        !.app.mqtt = @ \/ mqtt,
        !.app.last_src = 0,
        !.app.last_dist_ms = st.now,
        !.app.last_noise_ms = st.now,
        !.app.last_keepalive_ms = st.now,
        !.sink.fwd_kind = 0,
        !.sink.fwd_ms = [k \in 1 .. 3 |-> NoneVal]]

\* start, lines 68-80: the neutral state is published and the sensor
\* returned
StartReturn(p) ==
    /\ AppStep(p.st)
    /\ pc' = IdlePc
    /\ call' = Outcome("start", pc.arg, p.status, SetVal(p, Self).val, p.st.pubs,
                       pc.before)
StartFinish(pscript) ==
    /\ pc.at = "start" /\ pc.step = "finish"
    /\ StartReturn(publish_state(finished(ExecP(<<>>, pscript), pc.arg.mqtt),
                                 FALSE, 0, 0, FALSE, FALSE, TRUE))

\* an application call that touches neither the bus nor the sink
AppSet(op, arg, newapp) ==
    /\ pc = IdlePc
    /\ AppCall(op, arg, Return([Exec(<<>>) EXCEPT !.app = newapp], TRUE), pc)

\* use_mqtt, lines 152-156
Do_use_mqtt == AppSet("use_mqtt", NoneVal, [app EXCEPT !.mqtt = TRUE])

\* set_throttle, lines 158-163; the arguments are optional integers
Do_set_throttle(disturber_ms, noise_ms) ==
    AppSet("set_throttle", <<disturber_ms, noise_ms>>,
           [app EXCEPT
              !.throttle_dist_ms = IF disturber_ms # NoneVal THEN disturber_ms[1] ELSE @,
              !.throttle_noise_ms = IF noise_ms # NoneVal THEN noise_ms[1] ELSE @])

\* set_keepalive, lines 165-167
Do_set_keepalive(keepalive_ms) ==
    AppSet("set_keepalive", keepalive_ms, [app EXCEPT !.keepalive_ms = keepalive_ms])

\* stop, lines 82-84; it may be called while run() is looping, and then the
\* trace of the iteration goes on
Do_stop ==
    /\ AppState([Exec(<<>>) EXCEPT !.app.running = FALSE])
    /\ trace' = IF pc = IdlePc THEN <<>> ELSE trace
    /\ call' = Outcome("stop", NoneVal, "ok", TRUE, <<>>, Before)
    /\ UNCHANGED pc

\* _ensure_sensor, lines 222-224
ensure_sensor_passes(st) == Return(st, NoneVal)
ensure_sensor(st) ==
    IF ~st.app.sensor THEN Raise(st, "RuntimeError") ELSE Return(st, NoneVal)

\* AS3935App.status, lines 86-88
app_status(st) == Then(ensure_sensor(st), status)

\* AS3935App.tail, lines 90-92
AfterEnsureTail(r, n) == IF r.status # "ok" THEN r ELSE get_log(r.st, Some(n))
tail(st, n) == AfterEnsureTail(ensure_sensor(st), n)

\* an application call made in one step
AppOp(op, arg, r) ==
    /\ pc = IdlePc
    /\ AppCall(op, arg, r, pc)

Do_app_status(script) == AppOp("app_status", NoneVal, app_status(Exec(script)))
Do_tail(n) == AppOp("tail", n, tail(Exec(<<>>), n))

(***************************************************************************)
(* AS3935App.attach_irq, statement by statement: the handler the pin holds *)
(* can run between two statements.  It is called by the user and by        *)
(* start() (line 66).                                                      *)
(***************************************************************************)

\* attach_irq is at the statement `step`
InAppAttach(step) == pc.at \in {"app_attach", "start"} /\ pc.step = step

\* line 171: the call, and the pin is kept
Do_app_attach_irq ==
    /\ pc = IdlePc
    /\ AppState([Exec(<<>>) EXCEPT !.app.irq_pin = TRUE])
    /\ trace' = <<>>
    /\ pc' = [at |-> "app_attach", step |-> "pending", before |-> Before]
    /\ UNCHANGED call

\* line 172
AppAttachClear ==
    /\ InAppAttach("pending")
    /\ AppStep([Exec(<<>>) EXCEPT !.app.irq_pending = FALSE])
    /\ pc' = [pc EXCEPT !.step = "last"]
    /\ UNCHANGED call

\* line 173
AppAttachReset ==
    /\ InAppAttach("last")
    /\ AppStep([Exec(<<>>) EXCEPT !.app.irq_last_ms = 0])
    /\ pc' = [pc EXCEPT !.step = "register"]
    /\ UNCHANGED call

\* lines 175-181: the application's handler is registered
AppAttachRegister ==
    /\ InAppAttach("register")
    /\ pin_handler' = pin_irq(pin_handler, "app")
    /\ pc' = [pc EXCEPT !.step = "driver"]
    /\ UNCHANGED <<regs, flowvars, last, call, trace, now, log, log_cap, irq_pin,
                   irq_pending, irq_last_ms, hist, cb, irqlog, app, sink>>

\* attach_irq returns to the user, or to start() at line 68
AppAttachReturn(res) ==
    IF pc.at = "start"
    THEN pc' = [pc EXCEPT !.step = "finish"] /\ UNCHANGED call
    ELSE /\ pc' = IdlePc
         /\ call' = Outcome("app_attach_irq", NoneVal, res, Self, <<>>, pc.before)

\* lines 182-183: the driver's attach_irq (as3935.py lines 98-110) resets the
\* driver's flag and registers the driver's handler on the same pin; the
\* application's handler, on the pin until then, shares nothing with these
\* statements.  With no sensor the call raises AttributeError.
AppAttachDriver ==
    /\ InAppAttach("driver")
    /\ IF app.sensor
       THEN /\ irq_pin' = TRUE
            /\ irq_pending' = FALSE
            /\ irq_last_ms' = 0
            /\ pin_handler' = pin_irq(pin_handler, "driver")
            /\ AppAttachReturn("ok")
       ELSE /\ UNCHANGED <<irq_pin, irq_pending, irq_last_ms, pin_handler>>
            /\ AppAttachReturn("AttributeError")
    /\ UNCHANGED <<regs, flowvars, last, trace, now, log, log_cap, hist, cb, irqlog,
                   app, sink>>

(***************************************************************************)
(* run(), lines 147-149: a KeyboardInterrupt raised anywhere in the loop,  *)
(* between two statements, in a bus transfer or in publish(), is caught:   *)
(* _running is cleared and run() returns.  Any other exception leaves      *)
(* run() as it is raised.                                                  *)
(***************************************************************************)

\* lines 147-149: run() is stopped by a keyboard interrupt, with the
\* application, the device and the sink as st has them
RunStopped(st) ==
    /\ AppStep([st EXCEPT !.app.running = FALSE])
    /\ pc' = IdlePc
    /\ call' = Outcome("run", pc.sleep, "ok", NoneVal, st.pubs, Before)

\* the exception of r leaves run(); the iteration is noted with the publish()
\* calls it had made
RunLeft(r) ==
    IF r.status = "KeyboardInterrupt" THEN RunStopped(r.st)
    ELSE /\ AppStep(r.st)
         /\ pc' = IdlePc
         /\ call' = Outcome("run_iteration", pc.sleep, r.status, r.val,
                            pc.pubs \o r.st.pubs, pc.before)

\* a keyboard interrupt between two statements of the loop, or while run()
\* sleeps
RunInterrupt ==
    /\ pc.at = "run"
    /\ RunStopped(Exec(<<>>))

(***************************************************************************)
(* AS3935App.service, statement by statement.  It is called by the user,   *)
(* by step() (line 98) and by run() (line 109); pc.at tells by which.      *)
(* pc.ev is the event in hand: the one just read, not yet in the list.     *)
(***************************************************************************)

\* service() is at the statement `step`
InAppService(step) == pc.at \in {"app_service", "step", "run"} /\ pc.step = step

\* the call the user made, and its argument
CallerOp ==
    IF pc.at = "run" THEN "run_iteration"
    ELSE IF pc.at = "step" THEN "app_step" ELSE "app_service"
CallerArg ==
    IF pc.at = "run" THEN pc.sleep ELSE IF pc.at = "step" THEN NoneVal ELSE pc.arg

\* lines 185-187: the call by the user, up to the loop
Do_app_service(max_events) ==
    /\ pc = IdlePc
    /\ trace' = <<>>
    /\ pc' = [at |-> "app_service", step |-> "pending", n |-> RangeLen(max_events),
              events |-> <<>>, ev |-> NoneVal, arg |-> max_events, before |-> Before]
    /\ UNCHANGED <<regs, flowvars, last, call, now, drvvars, app, sink>>

\* line 197, and the breaks of lines 189 and 191: service() returns its
\* events, to the user, or to run() at line 110
AppSvcReturn ==
    IF pc.at = "run"
    THEN /\ pc' = [pc EXCEPT !.step = IF pc.events = <<>> THEN "poll" ELSE "handle"]
         /\ UNCHANGED call
    ELSE /\ pc' = IdlePc
         /\ call' = Outcome(CallerOp, CallerArg, "ok", pc.events, <<>>, pc.before)

\* lines 187-189: the loop ends after max_events rounds or when nothing is
\* pending
AppSvcTestPending ==
    /\ InAppService("pending")
    /\ IF pc.n = 0 \/ ~app.irq_pending THEN AppSvcReturn
       ELSE pc' = [pc EXCEPT !.step = "dwell"] /\ UNCHANGED call
    /\ UNCHANGED <<regs, flowvars, last, trace, now, drvvars, app, sink>>

\* lines 190-191: the dwell test
AppSvcTestDwell ==
    /\ InAppService("dwell")
    /\ IF ticks_diff(now, app.irq_last_ms) < AppDwell THEN AppSvcReturn
       ELSE pc' = [pc EXCEPT !.step = "clear"] /\ UNCHANGED call
    /\ UNCHANGED <<regs, flowvars, last, trace, now, drvvars, app, sink>>

\* line 192: the capture is consumed
AppSvcClear ==
    /\ InAppService("clear")
    /\ app' = [app EXCEPT !.irq_pending = FALSE]
    /\ pc' = [pc EXCEPT !.step = "read"]
    /\ UNCHANGED <<regs, flowvars, last, call, trace, now, drvvars, sink>>

\* an exception leaves service() and its caller
CallerLeft(r) ==
    IF pc.at = "run" THEN RunLeft(r)
    ELSE /\ AppStep(r.st)
         /\ pc' = IdlePc
         /\ call' = Outcome(CallerOp, CallerArg, r.status, r.val, <<>>, pc.before)

\* line 193: the event is read; with none (line 194) the round is over
AppSvcReadDone(r) ==
    IF r.status # "ok" THEN CallerLeft(r)
    ELSE /\ AppStep(r.st)
         /\ pc' = IF r.val = NoneVal
                  THEN [pc EXCEPT !.step = "pending", !.n = RoundsLeft(@)]
                  ELSE [pc EXCEPT !.step = "log", !.ev = r.val]
         /\ UNCHANGED call
AppSvcRead(script) ==
    /\ InAppService("read")
    /\ AppSvcReadDone(app_read(Exec(script)))

\* line 195, and _append_log, line 200: the event is appended to the
\* application's list
AppSvcLog ==
    /\ InAppService("log")
    /\ AppStep(app_log_append(Exec(<<>>), pc.ev[1]))
    /\ pc' = [pc EXCEPT !.step = "evict"]
    /\ UNCHANGED call

\* _append_log, lines 201-202: the list is cut to its capacity
AppSvcEvict ==
    /\ InAppService("evict")
    /\ AppStep(app_log_evict(Exec(<<>>)))
    /\ pc' = [pc EXCEPT !.step = "append"]
    /\ UNCHANGED call

\* line 196: the event is added to those service() returns, and the round is
\* over
AppSvcAppend ==
    /\ InAppService("append")
    /\ pc' = [pc EXCEPT !.step = "pending", !.n = RoundsLeft(@),
                        !.events = Append(@, pc.ev[1]), !.ev = NoneVal]
    /\ UNCHANGED <<regs, flowvars, last, call, trace, now, drvvars, app, sink>>

\* AS3935App.step, lines 94-102: refused with no sensor; with a pin service()
\* is entered with its default of 8 rounds; else the sensor is polled
StepCall(e, script) ==
    IF e.status # "ok" THEN AppCall("app_step", NoneVal, e, pc)
    ELSE IF app.irq_pin
    THEN /\ trace' = <<>>
         /\ pc' = [at |-> "step", step |-> "pending", n |-> RangeLen(8),
                   events |-> <<>>, ev |-> NoneVal, before |-> Before]
         /\ UNCHANGED <<regs, flowvars, last, call, now, drvvars, app, sink>>
    ELSE AppCall("app_step", NoneVal, run_poll(Exec(script)), pc)
Do_app_step(script) ==
    /\ pc = IdlePc
    /\ StepCall(ensure_sensor(Exec(<<>>)), script)

(***************************************************************************)
(* run(), statement by statement: the test of the loop, the capture by     *)
(* service() or by poll(), the time read, each event with its publish and  *)
(* the statements that follow it, the keepalive, and the sleep.  In pc,    *)
(* events is the list of line 109 or 113, i the index of the next event    *)
(* of the loop of line 116, ev the event in hand (read and not yet in the  *)
(* list, or handed to _publish_state), now_ms the time read at line 115    *)
(* and pubs the publish() calls of the iteration.                          *)
(***************************************************************************)

\* run, lines 104-106: the call, up to the loop; k is the number of calls of
\* run() that have entered the loop, this one included
RunCall(e, sleep, k) ==
    IF e.status # "ok" THEN AppCall("run", sleep, e, pc)
    ELSE AppCall("run_enter", sleep,
                 Return([Exec(<<>>) EXCEPT !.app.running = TRUE, !.app.runs = k],
                        NoneVal),
                 [at |-> "run", step |-> "loop", sleep |-> sleep, n |-> 0,
                  events |-> <<>>, ev |-> NoneVal, i |-> 1, now_ms |-> 0,
                  pubs |-> <<>>, wake |-> 0, before |-> Before])
\* run() is called, where its calls are not counted
RunEnter(sleep) ==
    /\ pc = IdlePc
    /\ RunCall(ensure_sensor(Exec(<<>>)), sleep, app.runs)
\* run() is called, where its calls are counted
RunAgain(sleep) ==
    /\ pc = IdlePc
    /\ RunCall(ensure_sensor(Exec(<<>>)), sleep, app.runs + 1)

\* run, line 108: the loop ends when _running is false
RunExit ==
    /\ pc.at = "run" /\ pc.step = "loop"
    /\ ~app.running
    /\ AppCall("run", pc.sleep, Return(Exec(<<>>), NoneVal), IdlePc)

\* run, lines 108-109: an iteration begins, by service() when a pin is
\* attached
RunLoop ==
    /\ pc.at = "run" /\ pc.step = "loop"
    /\ app.running
    /\ trace' = <<>>
    /\ pc' = [pc EXCEPT !.step = IF app.irq_pin THEN "pending" ELSE "poll",
                        !.n = RangeLen(8), !.events = <<>>, !.ev = NoneVal,
                        !.i = 1, !.now_ms = 0, !.pubs = <<>>, !.before = Before]
    /\ UNCHANGED <<regs, flowvars, last, call, now, drvvars, app, sink>>

\* run, lines 110-111, and poll, line 142: nothing was captured by service(),
\* the driver reads the event; with none, poll() returns None
RunPollRead(r) ==
    IF r.status # "ok" THEN RunLeft(r)
    ELSE /\ AppStep(r.st)
         /\ pc' = IF r.val = NoneVal THEN [pc EXCEPT !.step = "handle"]
                  ELSE [pc EXCEPT !.step = "poll_log", !.ev = r.val]
         /\ UNCHANGED call
RunPoll(script) ==
    /\ pc.at = "run" /\ pc.step = "poll"
    /\ RunPollRead(read_event(Exec(script), 0))

\* poll, lines 143-144, and _append_log, lines 241-242: the event is
\* appended to the driver's log
RunPollLog ==
    /\ pc.at = "run" /\ pc.step = "poll_log"
    /\ AppStep(log_append(Exec(<<>>), pc.ev[1]))
    /\ pc' = [pc EXCEPT !.step = "poll_evict"]
    /\ UNCHANGED call

\* _append_log, lines 243-244: the driver's log is cut to its capacity
RunPollEvict ==
    /\ pc.at = "run" /\ pc.step = "poll_evict"
    /\ AppStep(log_evict(Exec(<<>>)))
    /\ pc' = [pc EXCEPT !.step = "poll_notify"]
    /\ UNCHANGED call

\* poll, lines 145-148: the observer is told and poll() returns the event
RunPollNotified(r) ==
    IF r.status # "ok" THEN RunLeft(r)
    ELSE /\ AppStep(r.st)
         /\ pc' = [pc EXCEPT !.step = "poll_events"]
         /\ UNCHANGED call
RunPollNotify ==
    /\ pc.at = "run" /\ pc.step = "poll_notify"
    /\ RunPollNotified(notify(Exec(<<>>), pc.ev[1]))

\* run, lines 112-113: the polled event becomes the list of events
RunPollEvents ==
    /\ pc.at = "run" /\ pc.step = "poll_events"
    /\ pc' = [pc EXCEPT !.step = "handle", !.events = <<pc.ev[1]>>, !.ev = NoneVal]
    /\ UNCHANGED <<regs, flowvars, last, call, trace, now, drvvars, app, sink>>

\* run, line 115: the time of the iteration is read
RunNow ==
    /\ pc.at = "run" /\ pc.step = "handle"
    /\ pc' = [pc EXCEPT !.step = "event", !.now_ms = now, !.i = 1]
    /\ UNCHANGED <<regs, flowvars, last, call, trace, now, drvvars, app, sink>>

\* run, line 116: the loop over the events is over
RunEventsEnd ==
    /\ pc.at = "run" /\ pc.step = "event"
    /\ pc.i > Len(pc.events)
    /\ pc' = [pc EXCEPT !.step = "keepalive"]
    /\ UNCHANGED <<regs, flowvars, last, call, trace, now, drvvars, app, sink>>

\* run, lines 116-122, 126-128 and 133-135: the next event is dispatched, up
\* to the return of _publish_state.  A lightning event goes on to line 123, a
\* disturber or noise event that passed the throttle to line 129 or 136, one
\* that did not to the next event.
RunEventDone(h, ev) ==
    IF h.status # "ok" THEN RunLeft(h)
    ELSE /\ AppStep(h.st)
         /\ pc' = IF h.val
                  THEN [pc EXCEPT !.step = IF ev.type = "lightning" THEN "update_src"
                                           ELSE "update_ms",
                                  !.i = @ + 1, !.ev = Some(ev),
                                  !.pubs = @ \o h.st.pubs]
                  ELSE [pc EXCEPT !.i = @ + 1]
         /\ UNCHANGED call
RunEvent(pscript) ==
    /\ pc.at = "run" /\ pc.step = "event"
    /\ pc.i <= Len(pc.events)
    /\ RunEventDone(handle_event(ExecP(<<>>, pscript), pc.events[pc.i], pc.now_ms),
                    pc.events[pc.i])

\* run, lines 129 and 136
RunUpdateMs ==
    /\ pc.at = "run" /\ pc.step = "update_ms"
    /\ app' = update_ms(app, pc.ev[1], pc.now_ms)
    /\ pc' = [pc EXCEPT !.step = "update_src"]
    /\ UNCHANGED <<regs, flowvars, last, call, trace, now, drvvars, sink>>

\* run, lines 123, 130 and 137
RunUpdateSrc ==
    /\ pc.at = "run" /\ pc.step = "update_src"
    /\ app' = update_src(app, pc.ev[1])
    /\ pc' = [pc EXCEPT !.step = "event", !.ev = NoneVal]
    /\ UNCHANGED <<regs, flowvars, last, call, trace, now, drvvars, sink>>

\* run, lines 142-143: the keepalive test, and the publish when it is due
RunKeepaliveDone(k) ==
    IF k.status # "ok" THEN RunLeft(k)
    ELSE /\ AppStep(k.st)
         /\ pc' = IF k.val
                  THEN [pc EXCEPT !.step = "keepalive_ms", !.pubs = @ \o k.st.pubs]
                  ELSE [pc EXCEPT !.step = "to_sleep"]
         /\ UNCHANGED call
RunKeepalive(pscript) ==
    /\ pc.at = "run" /\ pc.step = "keepalive"
    /\ RunKeepaliveDone(keepalive(ExecP(<<>>, pscript), pc.now_ms))

\* run, line 144
RunKeepaliveMs ==
    /\ pc.at = "run" /\ pc.step = "keepalive_ms"
    /\ app' = [app EXCEPT !.last_keepalive_ms = pc.now_ms]
    /\ pc' = [pc EXCEPT !.step = "to_sleep"]
    /\ UNCHANGED <<regs, flowvars, last, call, trace, now, drvvars, sink>>

\* run, line 146: the sleep begins.  The caller's view of the iteration is
\* what it captured, the time it read at line 115 and the publish() calls it
\* made, with the application and the sink as the iteration found them.
RunSleep ==
    /\ pc.at = "run" /\ pc.step = "to_sleep"
    /\ trace' = Append(trace, [op |-> "sleep", ms |-> pc.sleep])
    /\ pc' = [pc EXCEPT !.step = "sleep", !.wake = now + pc.sleep]
    /\ call' = Outcome("run_iteration", pc.sleep, "ok",
                       [events |-> pc.events, now_ms |-> pc.now_ms], pc.pubs,
                       pc.before)
    /\ UNCHANGED <<regs, flowvars, last, now, drvvars, app, sink>>

\* run, line 146: the sleep is over
RunWake ==
    /\ pc.at = "run" /\ pc.step = "sleep"
    /\ now >= pc.wake
    /\ pc' = [pc EXCEPT !.step = "loop", !.wake = 0]
    /\ UNCHANGED <<regs, flowvars, last, call, trace, now, drvvars, app, sink>>

\* AS3935App.attach_irq._isr, lines 175-179: a rising edge runs the
\* application's handler
AppIsrEffect ==
    /\ app' = [app EXCEPT
                  !.irq_pending = isr(app.irq_pending, app.irq_last_ms, now).pending,
                  !.irq_last_ms = isr(app.irq_pending, app.irq_last_ms, now).last_ms]
    /\ UNCHANGED <<regs, flowvars, last, call, trace, now, drvvars, sink, pc>>

\* a rising edge on the pin runs the handler the pin holds
PinEdge ==
    /\ pin_handler \in {"app", "driver"}
    /\ IF pin_handler = "app" THEN AppIsrEffect ELSE Isr

\* the device latches an interrupt: the source code c in the low four bits
\* of the interrupt register
Latch(c) ==
    /\ regs' = [regs EXCEPT ![REG_IRQ_MASK_SRC] =
                    BitOr(BitAndNot(@, MASK_IRQ_SRC), c)]
    /\ UNCHANGED <<flowvars, last, call, trace, now, drvvars, appvars>>

----------------------------------------------------------------------------
(* Bus specification: an I2CFlow as constructed, given a retry policy and  *)
(* then one operation, on a device with any of BusBytes in its registers.  *)

\* the scripts of transport outcomes
Scripts == UNION {[1 .. n -> Outcomes] : n \in 0 .. MaxFaults}

\* the backoff given to retry(): none, or the default of 2 ms
Backoffs == {0, 2}

\* the register fields the operations are applied to
BusFields == {[reg |-> REG_NOISE_WATCHDOG, mask |-> MASK_NOISE_FLOOR, shift |-> 4],
              [reg |-> REG_NOISE_WATCHDOG, mask |-> MASK_WATCHDOG, shift |-> 0],
              [reg |-> REG_SREJ_MINSTRK, mask |-> BIT_CLEAR_STATS, shift |-> 6]}

BusFns ==
    {[kind |-> "read1", reg |-> REG_NOISE_WATCHDOG]}
    \cup {[kind |-> "readn", reg |-> REG_NOISE_WATCHDOG, n |-> 2]}
    \cup {[kind |-> "write1", reg |-> REG_NOISE_WATCHDOG, value |-> v] : v \in {90, 511}}
    \cup {[kind |-> "writen", reg |-> REG_NOISE_WATCHDOG, data |-> <<1, 2>>]}
    \cup {[kind |-> "rmw", reg |-> f.reg, mask |-> f.mask, shift |-> f.shift,
           value |-> v] : f \in BusFields, v \in {0, 1, 5, 31}}
    \cup {[kind |-> "field_get", reg |-> f.reg, mask |-> f.mask, shift |-> f.shift]
            : f \in BusFields}

\* the register contents before the operation: every 5th byte value (0x00,
\* 0x05, ..., 0x5A, ..., 0xA5, ..., 0xFF), shifted by the address so that no two
\* registers hold the same byte
BusBytes == {b \in Byte : b % 5 = 0}

\* the time given to wait_ms()
BusWaits == {0, 5}

InitBus ==
    /\ \E b \in BusBytes : regs = [a \in RegAddrs |-> (b + a) % 256]
    /\ retries = 0
    /\ backoff_ms = 0
    /\ last = NoneVal
    /\ call = IdleCall
    /\ trace = <<>>
    /\ now = 0
    /\ log = NoLog
    /\ log_cap = 0
    /\ irq_pin = FALSE
    /\ cb = "none"
    /\ pin_handler = "none"
    /\ irqlog = <<>>
    /\ app = NewApp
    /\ sink = NoSink
    /\ pc = [at |-> "idle"]
    /\ irq_pending = FALSE
    /\ irq_last_ms = 0
    /\ hist = <<>>

NextBus ==
    \/ \E t \in 0 .. MaxRetries, ms \in Backoffs : retry(t, ms)
    \/ trace = <<>> /\ \E ms \in BusWaits : Do_wait_ms(ms)
    \/ \E fn \in BusFns, s \in Scripts : FlowOp(fn, s)

SpecBus == InitBus /\ [][NextBus]_vars


----------------------------------------------------------------------------
(* Configuration specification: a driver on a device with any byte in each *)
(* register; one configuration call, then status().                        *)

\* the transport during a driver call: every transfer succeeds, or the first
\* one raises OSError
DrvScripts == {<<>>, <<"OSError">>}

\* the arguments given to the setters: every value of the documented ranges
\* and values on both sides of them
LevelInputs == -2 .. 17
MinStrikesInputs == -1 .. 17
DividerInputs == {-16, 0, 1, 8, 15, 16, 17, 32, 48, 64, 96, 128, 129, 256}
CapInputs == {c \in -17 .. 137 : c % 8 \in {0, 1, 7}} \cup {100, 200, 255, 1000}

InitDrv(R) ==
    /\ regs \in R
    /\ retries = 0
    /\ backoff_ms = 0
    /\ last = NoneVal
    /\ call = IdleCall
    /\ trace = <<>>
    /\ now = 0
    /\ log = NoLog
    /\ log_cap = 0
    /\ irq_pin = FALSE
    /\ cb = "none"
    /\ pin_handler = "none"
    /\ irqlog = <<>>
    /\ app = NewApp
    /\ sink = NoSink
    /\ pc = [at |-> "idle"]
    /\ irq_pending = FALSE
    /\ irq_last_ms = 0
    /\ hist = <<>>

\* every byte in every register, no two registers holding the same byte
CfgRegs == {[a \in RegAddrs |-> (b + a) % 256] : b \in Byte}

InitCfg == InitDrv(CfgRegs)

\* the sources given to setIRQOutputSource: none, the three oscillators, and
\* a value that names none
IrqOutputInputs == 0 .. 4

\* the configuration dicts given to apply_config and from_config: {}, every
\* key with a value of its range, and a strike count outside the table
FullCfg ==
    [indoors |-> Some(FALSE), tuning_cap_pf |-> Some(40), noise |-> Some(5),
     wdth |-> Some(9), srej |-> Some(7), min_n |-> Some(9), mask_dist |-> Some(TRUE)]
CfgInputs == {DefaultCfg, FullCfg, [FullCfg EXCEPT !.min_n = Some(3), !.indoors = Some(TRUE)]}

\* the transport during clearStatistics(): no transfer fails, or the first,
\* or the fourth, after the first read-modify-write is done
ClearScripts == {<<>>, <<"OSError">>, <<"ok", "ok", "ok", "OSError">>}

NextCfg ==
    \/ /\ call.op = "idle"
       /\ \E s \in ClearScripts : Do_clearStatistics(s)
    \/ /\ call.op = "idle"
       /\ \E s \in DrvScripts :
            \/ \E c \in CapInputs : Do_setTuningCaps(c, s)
            \/ \E l \in LevelInputs : Do_setNoiseFloorLvl(l, s)
            \/ \E l \in LevelInputs : Do_setWatchdogThreshold(l, s)
            \/ \E l \in LevelInputs : Do_setSpikeRejection(l, s)
            \/ \E n \in MinStrikesInputs : Do_setMinNumLightnings(n, s)
            \/ \E d \in DividerInputs : Do_antennaDivider(d, s)
            \/ Do_begin(s)
            \/ Do_powerUp(s)
            \/ Do_powerDown(s)
            \/ Do_setIndoors(s)
            \/ Do_setOutdoors(s)
            \/ Do_calibrate(s)
            \/ \E e \in BOOLEAN : Do_indoors(e, s)
            \/ \E e \in BOOLEAN : Do_disturberEn(e, s)
            \/ \E src \in IrqOutputInputs : Do_setIRQOutputSource(src, s)
    \/ /\ call.op = "idle"
       /\ \E s \in ClearScripts :
            \/ Do_defInit(s)
            \/ \E c \in CfgInputs : Do_apply_config(c, s)
            \/ \E c \in CfgInputs : Do_from_config(c, s)
    \/ /\ call.op # "status"
       /\ \E s \in DrvScripts : Do_status(s)

SpecCfg == InitCfg /\ [][NextCfg]_vars

----------------------------------------------------------------------------
(* Sensing specification: the driver's read accessors, called in any order *)
(* on a device with any interrupt-source and energy bytes.                 *)

\* the bytes (LSB, MID) of the two low energy registers
EnergyLow == {<<0, 0>>, <<255, 255>>, <<1, 128>>, <<128, 1>>, <<165, 90>>}

\* any byte h in the registers read through a mask (interrupt source,
\* distance, energy MSB), with each pair of low energy bytes
SenseRegs ==
    {[a \in RegAddrs |->
        IF a = REG_ENERGY_LSB THEN lm[1]
        ELSE IF a = REG_ENERGY_MID THEN lm[2] ELSE h]
     : lm \in EnergyLow, h \in Byte}

InitSense == InitDrv(SenseRegs)

\* the settle delays given to getInterruptSrc: none, or the default of 2 ms
WaitInputs == {0, 2}

\* no sensing call sleeps beyond MaxSenseClock
MaxSenseClock == 2

\* the transfers of read_event: all succeed, the first fails, the second fails
EventScripts == DrvScripts \cup {<<"ok", "OSError">>}

NextSense ==
    \/ \E s \in DrvScripts :
        \/ \E w \in WaitInputs : now + w <= MaxSenseClock /\ Do_getInterruptSrc(w, s)
        \/ Do_getLightningDistKm(s)
        \/ Do_getStrikeEnergyRaw(s)
    \/ \E w \in WaitInputs, s \in EventScripts :
          now + w <= MaxSenseClock /\ Do_read_event(w, s)

SpecSense == InitSense /\ [][NextSense]_vars

----------------------------------------------------------------------------
(* Logging specification: a driver on a device with an interrupt latched,  *)
(* logging enabled with any capacity, events captured by poll() and by     *)
(* service() after an edge on the attached pin, and the log read back.     *)

\* the clock stops at MaxLogClock
MaxLogClock == 4
\* the capacities given to enable_logging are 0 .. MaxCap
MaxCap == 2
\* at most MaxEvents events are appended to a log before it is emptied
MaxEvents == 3

\* interrupt-source bytes: nothing, noise, disturber, lightning
LatchedCodes == {0, 1, 4, 8}

\* a device at distance 5 (upper bits set) with strike energy bytes
LogRegs ==
    {[a \in RegAddrs |->
        IF a = REG_IRQ_MASK_SRC THEN 192 + c
        ELSE IF a = REG_DISTANCE THEN 69
        ELSE IF a = REG_ENERGY_MSB THEN 225 ELSE 16 + a]
     : c \in LatchedCodes}

InitLog == InitDrv(LogRegs)

CapacityInputs == 0 .. MaxCap
CountInputs == {NoneVal} \cup {Some(n) : n \in 0 .. MaxCap + 1}
MaxEventsInputs == {-1, 0, 1, 8}

\* the calls are made one after the other; an edge arrives at any point of
\* attach_irq and service()
NextLog ==
    \/ pc = [at |-> "idle"] /\ \E c \in CapacityInputs : Do_enable_logging(c)
    \/ pc = [at |-> "idle"] /\ Do_clear_log
    \/ pc = [at |-> "idle"] /\ \E c \in CountInputs : Do_get_log(c)
    \/ /\ pc = [at |-> "idle"]
       /\ Len(hist) < MaxEvents
       /\ \E s \in DrvScripts : Do_poll(s)
    \/ Do_attach_irq
    \/ AttachClear(FALSE)
    \/ AttachReset
    \/ AttachReturn
    \/ Isr
    \/ /\ Len(hist) < MaxEvents
       /\ \E m \in MaxEventsInputs : SvcCall(m)
    \/ SvcTestPending
    \/ SvcTestDwell
    \/ SvcClear(FALSE)
    \/ now + SettleMs <= MaxLogClock /\ SvcSettle
    \/ \E s \in DrvScripts : SvcRead(s, FALSE)
    \/ now < MaxLogClock /\ Tick

SpecLog == InitLog /\ [][NextLog]_vars

----------------------------------------------------------------------------
(* Run specification: an application that is started, given a sink and     *)
(* throttle and keepalive windows, and runs its loop while the device      *)
(* latches interrupts, the transport and the sink fail, and stop() or a    *)
(* keyboard interrupt arrives.                                             *)

\* the clock stops at MaxRunClock
MaxRunClock == 9

\* the device of LogRegs with no interrupt latched
InitRun == InitDrv({r \in LogRegs : BitAnd(r[REG_IRQ_MASK_SRC], MASK_IRQ_SRC) = 0})

\* transport outcomes of start(): none fails, or the transfer after begin()
StartScripts == {<<>>, <<"ok", "OSError">>}
\* transport outcomes of a read in run(): none fails, the first transfer
\* fails, or a keyboard interrupt arrives in the first transfer or in the
\* one after it (after the read of the interrupt register)
RunScripts == {<<>>, <<"OSError">>, <<"KeyboardInterrupt">>,
               <<"ok", "KeyboardInterrupt">>}
\* outcomes of the sink's publish() in start(): delivered, or raises
PubScripts == {<<>>, <<"Exception">>}
\* outcomes of the sink's publish() in run(): delivered, raises, or a
\* keyboard interrupt arrives in it
RunPubScripts == PubScripts \cup {<<"KeyboardInterrupt">>}
\* windows in ms given to set_throttle(disturber_ms, noise_ms)
ThrottleInputs == {<<Some(4), Some(4)>>, <<NoneVal, Some(2)>>}
\* intervals in ms given to set_keepalive
KeepaliveInputs == {4}
\* the sleep_ms argument of run()
SleepInputs == {2}

\* run() is at the test of its loop: what stop() and the device do during an
\* iteration is seen by the next test and the next read
BetweenIterations == pc.at = "run" /\ pc.step = "loop"

\* start() is called until it has succeeded; the windows are set between
\* start() and run(), which is called once.  The statements of a call take no
\* time: the clock moves in the sleeps.  A keyboard interrupt arrives at any
\* statement of run().  The edges are those the application's handler takes,
\* which is on the pin between lines 181 and 182 of attach_irq; the loop
\* reads nothing of what the driver's handler sets.
NextRun ==
    \/ /\ ~app.sensor
       /\ now + CalibMs <= MaxRunClock
       /\ \E irq \in BOOLEAN, mqtt \in BOOLEAN, s \in StartScripts :
            Do_start(DefaultCfg, irq, mqtt, s)
    \/ \E s \in DrvScripts : StartConfigure(s)
    \/ AppAttachClear
    \/ AppAttachReset
    \/ AppAttachRegister
    \/ AppAttachDriver
    \/ \E p \in PubScripts : StartFinish(p)
    \/ /\ call.op = "start"
       /\ ~app.mqtt
       /\ Do_use_mqtt
    \/ /\ call.op \in {"start", "use_mqtt"}
       /\ \E w \in ThrottleInputs : Do_set_throttle(w[1], w[2])
    \/ /\ call.op \in {"start", "use_mqtt", "set_throttle"}
       /\ \E k \in KeepaliveInputs : Do_set_keepalive(k)
    \/ /\ call.op \in {"idle", "start", "use_mqtt", "set_throttle", "set_keepalive"}
       /\ \E sl \in SleepInputs : RunEnter(sl)
    \/ RunLoop
    \/ AppSvcTestPending
    \/ AppSvcTestDwell
    \/ AppSvcClear
    \/ \E s \in RunScripts : AppSvcRead(s)
    \/ AppSvcLog
    \/ AppSvcEvict
    \/ AppSvcAppend
    \/ \E s \in RunScripts : RunPoll(s)
    \/ RunPollLog
    \/ RunPollEvict
    \/ RunPollNotify
    \/ RunPollEvents
    \/ RunNow
    \/ \E p \in RunPubScripts : RunEvent(p)
    \/ RunEventsEnd
    \/ RunUpdateMs
    \/ RunUpdateSrc
    \/ \E p \in RunPubScripts : RunKeepalive(p)
    \/ RunKeepaliveMs
    \/ /\ pc.at = "run"
       /\ now + pc.sleep <= MaxRunClock
       /\ RunSleep
    \/ RunWake
    \/ RunExit
    \/ /\ BetweenIterations
       /\ app.running
       /\ Do_stop
    \/ /\ app.running
       /\ RunInterrupt
    \/ /\ BetweenIterations
       /\ app.running
       /\ \E c \in LatchedCodes : Latch(c)
    \/ pin_handler = "app" /\ PinEdge
    \/ Sleeping /\ Tick

SpecRun == InitRun /\ [][NextRun]_vars

----------------------------------------------------------------------------
(* Re-run specification: an application started with or without a sink     *)
(* runs its loop in polling mode on a healthy bus, is stopped by stop() or  *)
(* by a keyboard interrupt at any statement of the loop or in publish(),    *)
(* is given a sink when it had none, and runs again, while the device       *)
(* latches interrupts.  Before the first run the driver's log may be given  *)
(* a capacity of one event, so that the log fills and evicts in the loop.   *)

\* run() is called at most MaxRuns times
MaxRuns == 2

\* the clock stops at MaxRerunClock
MaxRerunClock == 9

\* outcomes of the sink's publish() in run(): delivered, or a keyboard
\* interrupt arrives in it
RerunPubScripts == {<<>>, <<"KeyboardInterrupt">>}

NextRerun ==
    \/ /\ ~app.sensor
       /\ now + CalibMs <= MaxRerunClock
       /\ \E mqtt \in BOOLEAN : Do_start(DefaultCfg, FALSE, mqtt, <<>>)
    \/ StartConfigure(<<>>)
    \/ StartFinish(<<>>)
    \/ /\ call.op \in {"start", "run"}
       /\ ~app.mqtt
       /\ Do_use_mqtt
    \/ /\ call.op \in {"start", "use_mqtt"}
       /\ app.runs = 0
       /\ \E w \in ThrottleInputs : Do_set_throttle(w[1], w[2])
    \/ /\ call.op \in {"start", "use_mqtt", "set_throttle"}
       /\ app.runs = 0
       /\ Do_enable_logging(1)
    \/ /\ call.op \in {"start", "use_mqtt", "set_throttle", "enable_logging", "run"}
       /\ app.runs < MaxRuns
       /\ \E sl \in SleepInputs : RunAgain(sl)
    \/ RunLoop
    \/ RunPoll(<<>>)
    \/ RunPollLog
    \/ RunPollEvict
    \/ RunPollNotify
    \/ RunPollEvents
    \/ RunNow
    \/ \E p \in RerunPubScripts : RunEvent(p)
    \/ RunEventsEnd
    \/ RunUpdateMs
    \/ RunUpdateSrc
    \/ RunKeepalive(<<>>)
    \/ /\ pc.at = "run"
       /\ now + pc.sleep <= MaxRerunClock
       /\ RunSleep
    \/ RunWake
    \/ RunExit
    \/ /\ BetweenIterations
       /\ app.running
       /\ Do_stop
    \/ /\ app.running
       /\ RunInterrupt
    \/ /\ BetweenIterations
       /\ app.running
       /\ \E c \in LatchedCodes : Latch(c)
    \/ Sleeping /\ Tick

SpecRerun == InitRun /\ [][NextRerun]_vars

----------------------------------------------------------------------------
(* Observer specification: a driver with an observer that returns or       *)
(* raises, capturing by poll() and by service() after interrupt edges.     *)

\* the clock stops at MaxObsClock
MaxObsClock == 4

InitObs == InitDrv(LogRegs)

\* the observers given to set_callback: none, one that returns, one that
\* raises
Observers == {"none", "returns", "raises"}

NextObs ==
    \/ /\ call.op \in {"idle", "set_callback"}
       /\ \E c \in 1 .. MaxCap : Do_enable_logging(c)
    \/ /\ call.op \in {"idle", "enable_logging"}
       /\ \E c \in Observers : Do_set_callback(c)
    \/ /\ pc = [at |-> "idle"]
       /\ Len(hist) < MaxEvents
       /\ \E s \in DrvScripts : Do_poll(s)
    \/ pin_handler = "none" /\ Do_attach_irq
    \/ AttachClear(FALSE)
    \/ AttachReset
    \/ AttachReturn
    \/ Isr
    \/ /\ Len(hist) < MaxEvents
       /\ \E m \in MaxEventsInputs : SvcCall(m)
    \/ SvcTestPending
    \/ SvcTestDwell
    \/ SvcClear(FALSE)
    \/ now + SettleMs <= MaxObsClock /\ SvcSettle
    \/ \E s \in DrvScripts : SvcRead(s, FALSE)
    \/ now < MaxObsClock /\ Tick

SpecObs == InitObs /\ [][NextObs]_vars

----------------------------------------------------------------------------
(* Device specification: a driver, with logging enabled or not, on a       *)
(* device that latches interrupts and clears the latch when the interrupt  *)
(* register is read; status() and poll() in any order.                     *)

\* the clock stops at MaxDevClock
MaxDevClock == 2

InitDev == InitDrv(LogRegs)

NextDev ==
    \/ call.op = "idle" /\ Do_enable_logging(1)
    \/ \E c \in LatchedCodes \ {0} :
          /\ BitAnd(regs[REG_IRQ_MASK_SRC], MASK_IRQ_SRC) = 0
          /\ Latch(c)
    \/ \E s \in DrvScripts : Dev_status(s)
    \/ Len(hist) < MaxEvents /\ \E s \in DrvScripts : Dev_poll(s)
    \/ now < MaxDevClock /\ Tick

SpecDev == InitDev /\ [][NextDev]_vars

----------------------------------------------------------------------------
(* Interrupt specification: a driver with its handler attached; edges      *)
(* arrive at any time, also between two statements of service().           *)

\* the clock stops at MaxIrqClock
MaxIrqClock == 9
\* at most MaxEdges edges arrive
MaxEdges == 2

\* a device with a noise interrupt latched
IrqRegs == {r \in LogRegs : BitAnd(r[REG_IRQ_MASK_SRC], MASK_IRQ_SRC) = 1}
InitIrq == InitDrv(IrqRegs)

\* the max_events given to service(): room for a second round in one call
ServiceRounds == {2}

\* the entries of kind k of the history
Entries(k) == SelectSeq(irqlog, LAMBDA e : e.k = k)

NextIrq ==
    \/ /\ pin_handler = "none" \/ irq_pending
       /\ Do_attach_irq
    \/ AttachClear(TRUE)
    \/ AttachReset
    \/ AttachReturn
    \/ /\ Len(Entries("edge")) < MaxEdges
       /\ Edge
    \/ /\ pin_handler = "driver"
       /\ \E m \in ServiceRounds : SvcCall(m)
    \/ SvcTestPending
    \/ SvcTestDwell
    \/ SvcClear(TRUE)
    \/ now + SettleMs <= MaxIrqClock /\ SvcSettle
    \/ \E s \in DrvScripts : SvcRead(s, TRUE)
    \/ now < MaxIrqClock /\ Tick

SpecIrq == InitIrq /\ [][NextIrq]_vars

----------------------------------------------------------------------------
(* Drain specification: a driver with logging enabled and its handler      *)
(* attached once; service() of one or two rounds, statement by statement,  *)
(* on a bus that may fail, with edges arriving at any time.                *)

\* the clock stops at MaxDrainClock
MaxDrainClock == 6

\* the max_events given to service()
DrainRounds == {1, 2}

NextDrain ==
    \/ /\ ~log.enabled
       /\ pc = [at |-> "idle"]
       /\ Do_enable_logging(1)
    \/ /\ log.enabled /\ pin_handler = "none"
       /\ Do_attach_irq
    \/ AttachClear(TRUE)
    \/ AttachReset
    \/ AttachReturn
    \/ /\ Len(Entries("edge")) < MaxEdges
       /\ Edge
    \/ /\ pin_handler = "driver"
       /\ \E m \in DrainRounds : SvcCall(m)
    \/ SvcTestPending
    \/ SvcTestDwell
    \/ SvcClear(TRUE)
    \/ now + SettleMs <= MaxDrainClock /\ SvcSettle
    \/ \E s \in DrvScripts : SvcRead(s, TRUE)
    \/ now < MaxDrainClock /\ Tick

SpecDrain == InitIrq /\ [][NextDrain]_vars

----------------------------------------------------------------------------
(* Liveness specification of the pending-flag protocol: the handler is     *)
(* attached once, the bus does not fail, edges arrive at any point up to   *)
(* Dwell ms before the clock stops.  The main loop keeps calling service() *)
(* and runs every statement it has started (the interpreter does not       *)
(* stop), and time passes: weak fairness of these.  Edges are the          *)
(* environment's and are not fair.                                         *)

\* edges arrive until the clock is at MaxLiveClock - Dwell; the clock goes on
\* until the last sleep of read_event is over
MaxLiveClock == 4

LiveEdge ==
    /\ Len(Entries("edge")) < MaxEdges
    /\ now + Dwell <= MaxLiveClock
    /\ Edge

LiveAttach ==
    \/ pin_handler = "none" /\ Do_attach_irq
    \/ AttachClear(TRUE)
    \/ AttachReset
    \/ AttachReturn

LiveCall == pin_handler = "driver" /\ \E m \in DrainRounds : SvcCall(m)

LiveStep == SvcTestPending \/ SvcTestDwell \/ SvcClear(TRUE) \/ SvcSettle

\* the read of lines 160-173 on a bus that does not fail
LiveRead == SvcRead(<<>>, TRUE)

\* the steps of LiveRead, told by what they add to the history: the read is
\* the only step that notes a read (LiveReadIsNoted), and it can be taken as
\* soon as the sleep is over
LiveReadNoted ==
    /\ pc.at = "service" /\ pc.step = "sleep"
    /\ now >= pc.wake
    /\ irqlog' = Append(irqlog, [k |-> "read", t |-> now])

LiveReadIsNoted == [][LiveRead <=> LiveReadNoted]_vars

LiveTick == (now < MaxLiveClock \/ Sleeping) /\ Tick

NextLive ==
    \/ LiveAttach
    \/ LiveEdge
    \/ LiveCall
    \/ LiveStep
    \/ LiveRead
    \/ LiveTick

SpecLive ==
    /\ InitIrq /\ [][NextLive]_vars
    /\ WF_vars(LiveAttach) /\ WF_vars(LiveCall) /\ WF_vars(LiveStep)
    /\ WF_irqlog(LiveReadNoted) /\ WF_vars(LiveTick)

----------------------------------------------------------------------------
(* Application specification: an application as constructed, on which any  *)
(* of its methods is called in any order, one call after the other, before *)
(* and after start().  start(), attach_irq(), service(), step() and run()  *)
(* are run statement by statement: an edge on the pin runs the handler the *)
(* pin holds between any two statements and during the sleeps.  The        *)
(* statements take no time; the clock moves between the calls and in the   *)
(* sleeps.  The device latches its interrupts between the calls and        *)
(* between the iterations of run().                                        *)

\* the clock stops at MaxAppClock
MaxAppClock == 4

\* at most MaxCaptures events are captured
MaxCaptures == 1

AppScripts == {<<>>, <<"OSError">>}

\* transport outcomes of start() up to the sleep of defInit: none fails, the
\* device does not answer begin(), or the transfer after begin() fails
BeginScripts == StartScripts \cup {<<"OSError">>}

NextApp ==
    \/ /\ ~app.sensor
       /\ now + CalibMs <= MaxAppClock
       /\ \E irq \in BOOLEAN, s \in BeginScripts : Do_start(DefaultCfg, irq, FALSE, s)
    \/ \E s \in AppScripts : StartConfigure(s)
    \/ StartFinish(<<>>)
    \/ /\ ~app.irq_pin
       /\ Do_app_attach_irq
    \/ AppAttachClear
    \/ AppAttachReset
    \/ AppAttachRegister
    \/ AppAttachDriver
    \/ PinEdge
    \/ Do_app_status(<<>>)
    \/ \E n \in 0 .. 2 : Do_tail(n)
    \/ /\ Len(hist) + Len(app.log) < MaxCaptures
       /\ \E s \in AppScripts : Do_app_step(s)
    \/ /\ Len(hist) + Len(app.log) < MaxCaptures
       /\ \E m \in {0, 8} : Do_app_service(m)
    \/ AppSvcTestPending
    \/ AppSvcTestDwell
    \/ AppSvcClear
    \/ \E s \in AppScripts : AppSvcRead(s)
    \/ AppSvcLog
    \/ AppSvcEvict
    \/ AppSvcAppend
    \/ \E sl \in SleepInputs : RunEnter(sl)
    \/ /\ Len(hist) + Len(app.log) < MaxCaptures
       /\ RunLoop
    \/ \E s \in AppScripts : RunPoll(s)
    \/ RunPollLog
    \/ RunPollEvict
    \/ RunPollNotify
    \/ RunPollEvents
    \/ RunNow
    \/ RunEvent(<<>>)
    \/ RunEventsEnd
    \/ RunUpdateSrc
    \/ RunKeepalive(<<>>)
    \/ /\ pc.at = "run"
       /\ now + pc.sleep <= MaxAppClock
       /\ RunSleep
    \/ RunWake
    \/ RunInterrupt
    \/ /\ app.sensor
       /\ pc = IdlePc \/ BetweenIterations
       /\ BitAnd(regs[REG_IRQ_MASK_SRC], MASK_IRQ_SRC) = 0
       /\ Latch(8)
    \/ /\ now < MaxAppClock
       /\ pc = IdlePc \/ Sleeping
       /\ Tick

SpecApp == InitRun /\ [][NextApp]_vars

----------------------------------------------------------------------------
(* What a call's trace and outcome show *)

FlowKinds == {"read1", "readn", "write1", "writen", "rmw", "field_get"}

\* the transfer every attempt of the operation starts with
FirstOp(kind) == IF kind \in {"write1", "writen"} THEN "w" ELSE "r"

IsXfer(e) == e.op \in {"r", "w"}
IsFailure(e) == IsXfer(e) /\ e.res # "ok"

NAttempts == Cardinality({i \in DOMAIN trace : trace[i].op = FirstOp(call.op)})
NFailed == Cardinality({i \in DOMAIN trace : IsFailure(trace[i])})
NSleeps == Cardinality({i \in DOMAIN trace : trace[i].op = "sleep"})
OnlyOSError == \A i \in DOMAIN trace : IsFailure(trace[i]) => trace[i].res = "OSError"

\* bit i of v, and the byte made of the bits b(0) .. b(7)
Bit(v, i) == (v \div Pow2(i)) % 2
FromBits(b(_)) ==
    b(0) + 2 * b(1) + 4 * b(2) + 8 * b(3) + 16 * b(4) + 32 * b(5)
         + 64 * b(6) + 128 * b(7)

\* the byte rmw is to leave in the register: the bits of value << shift where
\* mask has a bit, the bits of old elsewhere
RmwExpected(old, mask, shift, value) ==
    FromBits(LAMBDA i : IF Bit(mask, i) = 1 THEN Bit(value * Pow2(shift), i)
                        ELSE Bit(old, i))

\* the number of bits of a field
FieldWidth(mask, shift) ==
    CHOOSE w \in 1 .. 8 : mask = (Pow2(w) - 1) * Pow2(shift)

\* what a successful operation returns, from the registers before it
ExpectedVal(fn, before) ==
    CASE fn.kind = "read1" -> <<before[fn.reg]>>
      [] fn.kind = "readn" -> [i \in 1 .. fn.n |-> before[fn.reg + i - 1]]
      [] fn.kind \in {"write1", "writen"} -> NoneVal
      [] fn.kind = "rmw" ->
            <<RmwExpected(before[fn.reg], fn.mask, fn.shift, fn.value)>>
      [] fn.kind = "field_get" ->
            <<(before[fn.reg] \div Pow2(fn.shift)) % Pow2(FieldWidth(fn.mask, fn.shift))>>

----------------------------------------------------------------------------
(* Claims on the bus transaction layer, under SpecBus *)

\* C1: an I2CFlow operation attempts the transfer at most retries+1 times; when
\* at most `retries` attempts fail with OSError (the error the transport raises)
\* the next attempt succeeds and the operation returns that attempt's result;
\* when all retries+1 attempts fail with OSError the operation raises the
\* I2CError, which reports retries+1 attempts.
C1_BoundedRetry ==
    call.op \in FlowKinds =>
        /\ NAttempts <= retries + 1
        /\ (OnlyOSError /\ NFailed <= retries) =>
                /\ call.status = "ok"
                /\ NAttempts = NFailed + 1
                /\ call.val = ExpectedVal(call.fn, call.before)
        /\ (OnlyOSError /\ NFailed > retries) =>
                /\ NFailed = retries + 1
                /\ NAttempts = retries + 1
                /\ call.status = "I2CError"
                /\ call.attempts = retries + 1

\* an operation whose first `retries` (>= 1) attempts failed and whose last
\* attempt succeeded
C1_Witness ==
    /\ call.op \in FlowKinds
    /\ retries >= 1
    /\ OnlyOSError
    /\ NFailed = retries
    /\ call.status = "ok"

\* C2: with a nonzero backoff, each sleep is of the backoff, directly follows a
\* failed transfer and is followed by the next attempt; every failed attempt
\* that is followed by another attempt is followed by a sleep; so k <= retries
\* failures and a success sleep k times, retries+1 failures sleep `retries`
\* times, and the sleeps add up to at most retries x backoff.
C2_BackoffBetweenAttempts ==
    (call.op \in FlowKinds /\ backoff_ms # 0) =>
        /\ \A i \in DOMAIN trace : trace[i].op = "sleep" =>
                /\ trace[i].ms = backoff_ms
                /\ i > 1 /\ IsFailure(trace[i - 1])
                /\ i < Len(trace) /\ trace[i + 1].op = FirstOp(call.op)
        /\ \A i \in DOMAIN trace : (IsFailure(trace[i]) /\ i < Len(trace)) =>
                trace[i + 1].op = "sleep"
        /\ call.status = "ok" => NSleeps = NFailed
        /\ call.status = "I2CError" => NSleeps = retries
        /\ NSleeps * backoff_ms <= retries * backoff_ms

\* an operation with a backoff that failed retries+1 (>= 2) times
C2_Witness ==
    /\ call.op \in FlowKinds
    /\ backoff_ms # 0
    /\ retries >= 1
    /\ call.status = "I2CError"
    /\ NSleeps = retries

\* C3: whatever the transport raises, a failed I2CFlow operation raises the
\* I2CError with the attempt count and the last cause, never the transport's
\* own error.
C3_EveryFailureIsI2CError ==
    (call.op \in FlowKinds /\ call.status # "ok") =>
        /\ call.status = "I2CError"
        /\ call.attempts = retries + 1
        /\ call.cause = trace[Len(trace)].res

\* C4: every write of rmw directly follows a successful read of the same
\* register in the same attempt; after a success the register holds the old
\* byte with the bits of the mask replaced by those of value << shift, and no
\* other register changed; after the I2CError no register changed.
C4_RmwAsOneUnit ==
    call.op = "rmw" =>
        /\ \A i \in DOMAIN trace : trace[i].op = "w" =>
                /\ i > 1
                /\ trace[i - 1].op = "r" /\ trace[i - 1].res = "ok"
                /\ trace[i - 1].reg = trace[i].reg
        /\ call.status = "ok" =>
                /\ regs[call.fn.reg] = RmwExpected(call.before[call.fn.reg],
                        call.fn.mask, call.fn.shift, call.fn.value)
                /\ \A i \in 0 .. 7 : Bit(call.fn.mask, i) = 0 =>
                        Bit(regs[call.fn.reg], i) = Bit(call.before[call.fn.reg], i)
                /\ \A a \in RegAddrs \ {call.fn.reg} : regs[a] = call.before[a]
        /\ call.status = "I2CError" => regs = call.before

\* an rmw that succeeded after an attempt whose write failed, on a register
\* that had bits of the field set
C4_Witness ==
    /\ call.op = "rmw"
    /\ call.status = "ok"
    /\ \E i \in DOMAIN trace : trace[i].op = "w" /\ trace[i].res = "OSError"
    /\ regs # call.before
    /\ BitAnd(call.before[call.fn.reg], call.fn.mask) # 0


----------------------------------------------------------------------------
(* Claims on the sensor driver, under SpecSense and SpecCfg *)

\* the values of _int_code_to_src
SrcLightning == 1
SrcDisturber == 2
SrcNoise == 3
SrcNone == 0

\* C5: the interrupt source getInterruptSrc returns is decided by the low four
\* bits of the interrupt-source register alone: lightning when bit 3 is set,
\* else disturber when bit 2 is set, else noise when bit 0 is set, else none
\* (so none for 0b0000 and 0b0010), in every call of any sequence of calls.
C5_SourcePriority ==
    (call.op = "getInterruptSrc" /\ call.status = "ok") =>
        LET code == call.before[REG_IRQ_MASK_SRC] % 16
        IN /\ Bit(code, 3) = 1 => call.val = SrcLightning
           /\ (Bit(code, 3) = 0 /\ Bit(code, 2) = 1) => call.val = SrcDisturber
           /\ (Bit(code, 3) = 0 /\ Bit(code, 2) = 0 /\ Bit(code, 0) = 1) =>
                    call.val = SrcNoise
           /\ code \in {0, 2} => call.val = SrcNone

\* the code 0b1101, with bits above the code set in the register, read as
\* lightning
C5_Witness ==
    /\ call.op = "getInterruptSrc"
    /\ call.status = "ok"
    /\ call.before[REG_IRQ_MASK_SRC] = 128 + 13
    /\ call.val = SrcLightning

\* the documented range of each validated setter
InDocumentedRange(op, arg) ==
    CASE op = "setNoiseFloorLvl" -> arg \in 0 .. 7
      [] op = "setWatchdogThreshold" -> arg \in 0 .. 15
      [] op = "setSpikeRejection" -> arg \in 0 .. 15
      [] op = "setMinNumLightnings" -> arg \in {1, 5, 9, 16}
      [] op = "antennaDivider" -> arg \in {16, 32, 64, 128}

LevelSetters == {"setNoiseFloorLvl", "setWatchdogThreshold", "setSpikeRejection"}
ValidatedSetters == LevelSetters \cup {"setMinNumLightnings", "antennaDivider"}

\* C6: with a level in range and a bus that does not fail, the level setter
\* succeeds, whatever the register held; and the status() that follows a
\* successful level setter reports the level set, and the other fields of the
\* register as they were before the setter.
C6_LevelRoundTrip ==
    /\ (call.op \in LevelSetters /\ InDocumentedRange(call.op, call.arg)
            /\ NFailed = 0) => call.status = "ok"
    /\ (call.op = "status" /\ call.status = "ok"
            /\ call.prev.op \in LevelSetters /\ call.prev.status = "ok") =>
        LET old1 == call.prev.before[REG_NOISE_WATCHDOG]
            old2 == call.prev.before[REG_SREJ_MINSTRK]
        IN /\ call.prev.op = "setNoiseFloorLvl" =>
                /\ call.val.noise = call.prev.arg
                /\ call.val.watchdog = old1 % 16
                /\ regs[REG_NOISE_WATCHDOG] \div 128 = old1 \div 128
           /\ call.prev.op = "setWatchdogThreshold" =>
                /\ call.val.watchdog = call.prev.arg
                /\ call.val.noise = (old1 \div 16) % 8
                /\ regs[REG_NOISE_WATCHDOG] \div 16 = old1 \div 16
           /\ call.prev.op = "setSpikeRejection" =>
                /\ call.val.spike_rej = call.prev.arg
                /\ call.val.min_strikes = <<1, 5, 9, 16>>[((old2 \div 16) % 4) + 1]
                /\ regs[REG_SREJ_MINSTRK] \div 16 = old2 \div 16

\* status() after setNoiseFloorLvl(5) on a register that held another noise
\* floor and a nonzero watchdog
C6_Witness ==
    /\ call.op = "status"
    /\ call.status = "ok"
    /\ call.prev.op = "setNoiseFloorLvl"
    /\ call.prev.status = "ok"
    /\ call.prev.arg = 5
    /\ call.prev.before[REG_NOISE_WATCHDOG] = 42
    /\ call.val.noise = 5
    /\ call.val.watchdog = 10

\* C7: a validated setter given a value outside its documented range raises
\* the ValueError without a bus transfer and leaves every register unchanged.
C7_RejectedBeforeBus ==
    (call.op \in ValidatedSetters /\ ~InDocumentedRange(call.op, call.arg)) =>
        /\ call.status = "ValueError"
        /\ trace = <<>>
        /\ regs = call.before

\* setNoiseFloorLvl(8), in range for the two other level setters, rejected
C7_Witness ==
    /\ call.op = "setNoiseFloorLvl"
    /\ call.arg = 8
    /\ call.status = "ValueError"
    /\ trace = <<>>

\* C8: getStrikeEnergyRaw returns (MSB mod 32) x 65536 + MID x 256 + LSB, which
\* is within 0 .. 0x1FFFFF, is 0x1FFFFF for LSB = MID = 0xFF and MSB = 0x1F,
\* and is the same whatever the top three bits of MSB.
C8_EnergyAssembly ==
    (call.op = "getStrikeEnergyRaw" /\ call.status = "ok") =>
        LET l == call.before[REG_ENERGY_LSB]
            m == call.before[REG_ENERGY_MID]
            h == call.before[REG_ENERGY_MSB]
        IN /\ call.val = (h % 32) * 65536 + m * 256 + l
           /\ call.val \in 0 .. 2097151
           /\ (l = 255 /\ m = 255 /\ h % 32 = 31) => call.val = 2097151

\* all 21 bits set, read with the top three bits of MSB set as well
C8_Witness ==
    /\ call.op = "getStrikeEnergyRaw"
    /\ call.status = "ok"
    /\ call.before[REG_ENERGY_MSB] = 255
    /\ call.val = 2097151

\* the steps of a capacitance: cap_pf div 8 held within 0 .. 15
StepsExpected(cap_pf) ==
    IF cap_pf < 0 THEN 0
    ELSE IF cap_pf >= 120 THEN 15
    ELSE CHOOSE k \in 0 .. 14 : 8 * k <= cap_pf /\ cap_pf < 8 * k + 8

\* C9: setTuningCaps never raises the ValueError; on a bus that does not fail
\* it succeeds and leaves the steps in bits [3:0] of the tuning register and
\* bits [7:4] and the other registers as they were; the status() that follows
\* reports the steps and steps x 8 (96 -> 12 / 96, 200 -> 15 / 120).
C9_TuningCapsClamped ==
    /\ call.op = "setTuningCaps" =>
        /\ call.status # "ValueError"
        /\ NFailed = 0 =>
            /\ call.status = "ok"
            /\ regs[REG_DISPLAY_TUNING] % 16 = StepsExpected(call.arg)
            /\ regs[REG_DISPLAY_TUNING] \div 16
                    = call.before[REG_DISPLAY_TUNING] \div 16
            /\ \A a \in RegAddrs \ {REG_DISPLAY_TUNING} : regs[a] = call.before[a]
    /\ (call.op = "status" /\ call.status = "ok"
            /\ call.prev.op = "setTuningCaps" /\ call.prev.status = "ok") =>
        /\ call.val.tuning_cap_steps = StepsExpected(call.prev.arg)
        /\ call.val.tuning_cap_pf = 8 * StepsExpected(call.prev.arg)
        /\ call.prev.arg = 96 =>
                call.val.tuning_cap_steps = 12 /\ call.val.tuning_cap_pf = 96
        /\ call.prev.arg = 200 =>
                call.val.tuning_cap_steps = 15 /\ call.val.tuning_cap_pf = 120

\* status() after setTuningCaps(200) on a register with other steps
C9_Witness ==
    /\ call.op = "status"
    /\ call.status = "ok"
    /\ call.prev.op = "setTuningCaps"
    /\ call.prev.status = "ok"
    /\ call.prev.arg = 200
    /\ call.prev.before[REG_DISPLAY_TUNING] = 165
    /\ call.val.tuning_cap_steps = 15
    /\ call.val.tuning_cap_pf = 120

----------------------------------------------------------------------------
(* Claims on the ring log, under SpecLog and SpecApp *)

\* the last n elements of s, oldest first
LastN(s, n) == SubSeq(s, Len(s) - n + 1, Len(s))

\* C10: after any sequence of captures (service, poll) and clear_log, an
\* enabled log holds at most its capacity _log_cap of events, and they are
\* the most recent of the events appended since it was last emptied, in
\* arrival order (the oldest are the ones evicted); once at least _log_cap
\* events have been appended, get_log(_log_cap), which is what tail(_log_cap)
\* of a started application returns, is exactly the most recent _log_cap of
\* them in arrival order.
C10_RingLog ==
    log.enabled =>
        /\ Len(log.items) <= log_cap
        /\ log.items = LastN(hist, Min(log_cap, Len(hist)))
        /\ (/\ pc = [at |-> "idle"]
            /\ call.op = "get_log" /\ call.arg = Some(log_cap)
            /\ Len(hist) >= log_cap)
               => (call.status = "ok" /\ call.val = LastN(hist, log_cap))

\* a log of capacity 2 or more has had more events appended than it holds,
\* at different times, and get_log(capacity) has been called
C10_Witness ==
    /\ log.enabled
    /\ log_cap >= 2
    /\ Len(hist) > log_cap
    /\ hist[1].ts < hist[2].ts
    /\ hist[2].ts < hist[3].ts
    /\ pc = [at |-> "idle"]
    /\ call.op = "get_log"
    /\ call.arg = Some(log_cap)

\* C11: for every n >= 0 and every log content of length L, tail(n) of a
\* started application returns exactly the last min(n, L) logged events,
\* oldest first: none for n = 0, all of them for n > L.  (Under SpecApp.)
C11_TailLastN ==
    (call.op = "tail" /\ call.arg >= 0 /\ call.before_app.sensor)
        => /\ call.status = "ok"
           /\ call.val = LastN(log.items, Min(call.arg, Len(log.items)))

----------------------------------------------------------------------------
(* Claims on the application's loop, under SpecRun and SpecRerun *)

\* the last call is an iteration of run() that completed, with a sink
CompletedIteration ==
    /\ call.op = "run_iteration"
    /\ call.status = "ok"
    /\ call.before_app.mqtt

\* the iteration captured one event, of type t
CapturedOne(t) ==
    /\ Len(call.val.events) = 1
    /\ call.val.events[1].type = t

\* the iteration handed a state reporting an event of kind k to publish()
ForwardedKind(k) ==
    \E i \in DOMAIN call.pubs : KindOf(call.pubs[i].payload) = k

\* before the iteration, the last event handed to publish() since start() was
\* not of kind k, or the last one of kind k was handed at least `window`
\* before the iteration's time
ThrottleOpen(k, window) ==
    \/ call.before_sink.fwd_kind # k
    \/ /\ call.before_sink.fwd_ms[k] # NoneVal
       /\ call.val.now_ms - call.before_sink.fwd_ms[k][1] >= window

\* C12: in run(), with a sink, a disturber (a noise) event is handed to the
\* sink if and only if the last event handed to it since start() was of
\* another kind (or there was none), or at least the disturber (noise)
\* throttle window has passed since the last disturber (noise) handed to it.
\* (Under SpecRerun, where run() is called again after it was stopped.)
C12_ThrottleForwarding ==
    CompletedIteration =>
        /\ CapturedOne("disturber") =>
              (ForwardedKind(2) <=> ThrottleOpen(2, call.before_app.throttle_dist_ms))
        /\ CapturedOne("noise") =>
              (ForwardedKind(3) <=> ThrottleOpen(3, call.before_app.throttle_noise_ms))

\* the statements of an iteration of run() at which an event has been read
\* and is not yet in the list of events
ReadNotListed ==
    {"log", "evict", "append", "poll_log", "poll_evict", "poll_notify", "poll_events"}

\* the events an iteration of run() has captured and not yet dispatched: those
\* of the list from the index of the loop of line 116 on, and the one read
\* that is not yet in the list
Undispatched(p) ==
    IF p.at # "run" THEN <<>>
    ELSE SubSeq(p.events, p.i, Len(p.events))
            \o (IF p.step \in ReadNotListed THEN <<p.ev[1]>> ELSE <<>>)

\* run(), with a sink, holds a captured lightning event it has not dispatched
LightningWaiting ==
    /\ app.mqtt
    /\ \E k \in DOMAIN Undispatched(pc) : Undispatched(pc)[k].type = "lightning"

\* the state _publish_state is given for the lightning event ev
LightningState(ev) ==
    Payload(TRUE, OrZero(ev.distance_km), OrZero(ev.energy), FALSE, FALSE)

\* the step dispatches nothing: run() goes on with the same events waiting,
\* and maybe one more
Kept ==
    /\ pc'.at = "run"
    /\ Len(Undispatched(pc')) >= Len(Undispatched(pc))
    /\ SubSeq(Undispatched(pc'), 1, Len(Undispatched(pc))) = Undispatched(pc)

\* the step dispatches the first waiting event, and hands it to publish() as
\* alert ON with its distance and energy when it is a lightning event
HeadForwarded ==
    /\ pc'.at = "run"
    /\ Undispatched(pc') = Tail(Undispatched(pc))
    /\ Head(Undispatched(pc)).type = "lightning" =>
          /\ Len(pc'.pubs) = Len(pc.pubs) + 1
          /\ pc'.pubs[Len(pc'.pubs)].payload = LightningState(Head(Undispatched(pc)))

\* the step is lines 147-149: a keyboard interrupt stops run()
StoppedByInterrupt ==
    /\ pc.at = "run" /\ pc'.at = "idle"
    /\ app.running /\ ~app'.running
    /\ call'.op = "run" /\ call'.status = "ok"

StateBeforeLastPublish ==
    IF Len(call.pubs) >= 2 THEN Some(call.pubs[Len(call.pubs) - 1].payload)
    ELSE call.before_sink.state

\* C14: whenever at least the keepalive interval has passed since the previous
\* keepalive, the iteration of run() publishes a keepalive, and the state it
\* publishes is the one most recently forwarded: the same alert, distance,
\* energy, disturber and noise values.
C14_KeepaliveRepeatsLastState ==
    (/\ CompletedIteration
     /\ call.val.now_ms - call.before_app.last_keepalive_ms >= call.before_app.keepalive_ms
     /\ call.before_sink.state # NoneVal)
        => /\ Len(call.pubs) >= 1
           /\ Some(call.pubs[Len(call.pubs)].payload) = StateBeforeLastPublish

\* publish() raised res: a failure of the sink, and no keyboard interrupt
SinkFailure(res) == res \notin {"ok", "KeyboardInterrupt"}

\* the statements of run() that call _publish_state
PublishSteps == {"event", "keepalive"}

\* the publish() call made in this step of run(), as an optional value: the
\* one added to those of the iteration, or the last of those run() was left
\* with
PublishedNow ==
    IF pc.at # "run" \/ pc.step \notin PublishSteps THEN NoneVal
    ELSE IF pc'.at = "run"
    THEN IF Len(pc'.pubs) = Len(pc.pubs) + 1 THEN Some(pc'.pubs[Len(pc'.pubs)])
         ELSE NoneVal
    ELSE IF call'.pubs # <<>> THEN Some(call'.pubs[Len(call'.pubs)])
    ELSE NoneVal

\* the statement that follows the call of _publish_state made at pc
AfterPublishState ==
    IF pc.step = "keepalive" THEN "keepalive_ms"
    ELSE IF pc.events[pc.i].type = "lightning" THEN "update_src"
    ELSE "update_ms"

\* the sink's publish() raises in this step: _publish_state returns and run()
\* is at the next statement, with nothing of the application changed
FailureSwallowed ==
    (PublishedNow # NoneVal /\ SinkFailure(PublishedNow[1].res)) =>
        /\ pc'.at = "run"
        /\ pc'.step = AfterPublishState
        /\ pc'.events = pc.events
        /\ app' = app
        /\ UNCHANGED call

\* an iteration in which publish() raised completes in this step: the
\* throttle timers are set as for a delivered state, the keepalive was
\* published if it was due, and the sleep of the iteration begins, in full
FailedIterationCompletes ==
    (/\ call' # call
     /\ call'.op = "run_iteration"
     /\ \E i \in DOMAIN call'.pubs : SinkFailure(call'.pubs[i].res)) =>
        /\ call'.status = "ok"
        /\ pc'.at = "run" /\ pc'.step = "sleep"
        /\ pc'.wake = call'.val.now_ms + pc'.sleep
        /\ KeepaliveDue(call'.val.now_ms, call'.before_app.last_keepalive_ms,
                        call'.before_app.keepalive_ms)
              => /\ app'.last_keepalive_ms = call'.val.now_ms
                 /\ KindOf(call'.pubs[Len(call'.pubs)].payload) = 0
        /\ \A i \in DOMAIN call'.pubs :
              /\ KindOf(call'.pubs[i].payload) = 2 => app'.last_dist_ms = call'.val.now_ms
              /\ KindOf(call'.pubs[i].payload) = 3 => app'.last_noise_ms = call'.val.now_ms

\* the statements of an iteration of run() that read the sensor
CaptureSteps == {"read", "poll", "poll_notify"}

\* run() is left only by its return (the test of line 108, or lines 147-149
\* after a keyboard interrupt) or by an exception of a capture
LeftByStopOrCapture ==
    (pc.at = "run" /\ pc'.at # "run") =>
        \/ call'.op = "run" /\ call'.status = "ok"
        \/ pc.step \in CaptureSteps

\* C18: a failure of the sink never ends run(): when the sink's publish()
\* raises, _publish_state returns normally and run() goes on with the next
\* statement, then the remaining events, the keepalive, which is published if
\* it is due, and the sleep of the iteration, made in full; run() is left by
\* no step that calls _publish_state, unless a keyboard interrupt arrives.
C18_PublishFailureSwallowed ==
    [][FailureSwallowed /\ FailedIterationCompletes /\ LeftByStopOrCapture]_vars

\* the last call is an iteration of run() in which a publish() of the sink
\* raised
PublishFailed ==
    /\ call.op = "run_iteration"
    /\ \E i \in DOMAIN call.pubs : SinkFailure(call.pubs[i].res)

\* the publish of a captured event raises and the keepalive of the same
\* iteration is still published
C18_Witness ==
    /\ PublishFailed
    /\ Len(call.pubs) = 2
    /\ call.pubs[1].res = "Exception"
    /\ KindOf(call.pubs[1].payload) = 1
    /\ call.pubs[2].res = "ok"
    /\ pc.at = "run"

\* C19: a bus error raised by the capture in an iteration of run() ends that
\* iteration only: run() is still in its loop.
C19_BusErrorKeepsLooping ==
    (call.op = "run_iteration" /\ call.status = "I2CError") => pc.at = "run"


----------------------------------------------------------------------------
(* Claims on the observer, under SpecObs *)

\* the last call is a capture that has returned or raised, made with logging
\* enabled and an observer set
ObservedCapture ==
    /\ pc = [at |-> "idle"]
    /\ call.op \in {"poll", "service"}
    /\ cb # "none"
    /\ log.enabled

\* the events the observer was called with during the call
NotedEvents == [i \in DOMAIN call.notes |-> call.notes[i].ev]

\* C17: in poll() and service(), with logging enabled, each event is the
\* newest entry of the log when the observer is called with it; whether the
\* observer returns or raises, the call ends normally unless the bus failed,
\* returns the events the observer was called with, and these are the newest
\* events of the log.
C17_LogBeforeObserver ==
    ObservedCapture =>
        /\ \A i \in DOMAIN call.notes :
              /\ call.notes[i].log # <<>>
              /\ call.notes[i].log[Len(call.notes[i].log)] = call.notes[i].ev
        /\ call.status \in {"ok", "I2CError"}
        /\ call.status = "I2CError" => \E i \in DOMAIN trace : IsFailure(trace[i])
        /\ call.status = "ok" =>
              /\ call.op = "service" => call.val = NotedEvents
              /\ call.op = "poll" =>
                    \/ call.val = NoneVal /\ call.notes = <<>>
                    \/ call.val # NoneVal /\ NotedEvents = <<call.val[1]>>
        /\ LastN(hist, Len(call.notes)) = NotedEvents
        /\ LastN(log.items, Min(Len(call.notes), Len(log.items)))
              = LastN(NotedEvents, Min(Len(call.notes), Len(log.items)))

\* service() returns the event it drained although the observer raised, and
\* the event is the newest of the log
C17_Witness ==
    /\ ObservedCapture
    /\ call.op = "service"
    /\ cb = "raises"
    /\ call.status = "ok"
    /\ Len(call.val) = 1
    /\ log.items # <<>>
    /\ log.items[Len(log.items)] = call.val[1]


----------------------------------------------------------------------------
(* Claims on the interrupt handler and service(), under SpecIrq *)

\* the edges that arrived and the consumptions made by service(), in order
Edges == Entries("edge")
Clears == Entries("clear")

\* attach_irq was called once, two edges arrived, and service() has drained:
\* it has returned and nothing is pending
TwoEdgesDrained ==
    /\ Len(Entries("attach")) = 1
    /\ Len(Edges) = 2
    /\ pc = [at |-> "idle"]
    /\ call.op = "service"
    /\ ~irq_pending

\* C15: of two edges at most the debounce window apart, service() consumes
\* one capture, whose recorded edge time is that of the first edge; of two
\* edges farther apart than the window, service() consumes two captures.
C15_Debounce ==
    TwoEdgesDrained =>
        IF Edges[2].t - Edges[1].t <= DebounceWindow
        THEN Len(Clears) = 1 /\ Clears[1].last = Edges[1].t
        ELSE Len(Clears) = 2

\* the second half of C15 alone: two edges farther apart than the window
\* are consumed as two captures
C15_FarEdgesTwoCaptures ==
    (TwoEdgesDrained /\ Edges[2].t - Edges[1].t > DebounceWindow) => Len(Clears) = 2

\* the 1 ms example of C15: two edges 1 ms apart are consumed as one capture
\* with the time of the first edge
C15_NearEdgesOneCapture ==
    (TwoEdgesDrained /\ Edges[2].t - Edges[1].t <= 1)
        => Len(Clears) = 1 /\ Clears[1].last = Edges[1].t

\* C16: whenever service() clears _irq_pending, at least Dwell ms have passed
\* since the last recorded edge as it stands at that moment.
C16_DwellAtClear ==
    \A i \in DOMAIN Clears : Clears[i].t - Clears[i].last >= Dwell

\* the second half of C16: when the dwell test fails, service() returns and
\* the capture stays pending
C16_ShortDwellLeavesPending ==
    [][(pc.at = "service" /\ pc.step = "dwell"
        /\ ticks_diff(now, irq_last_ms) < Dwell /\ pc' # pc)
          => (pc'.at = "idle" /\ irq_pending' /\ irqlog' = irqlog)]_vars


\* a step in which an edge arrives and the handler runs
EdgeStep == Len(irqlog') = Len(irqlog) + 1 /\ irqlog'[Len(irqlog')].k = "edge"

\* the handler leaves pending true, records the time of this edge or keeps
\* the recorded one, and touches neither the bus nor any other state
HandlerOnlySets ==
    EdgeStep =>
        /\ irq_pending'
        /\ irq_last_ms' \in {irq_last_ms, now}
        /\ UNCHANGED <<regs, flowvars, last, call, trace, now, log, log_cap,
                       irq_pin, hist, cb, pin_handler, appvars>>

\* the step is line 124 of service(), reached only after line 119 read
\* _irq_pending as true in the same round
ClearedByService ==
    /\ pc.at = "service" /\ pc.step = "clear"
    /\ pc' = [pc EXCEPT !.step = "settle"]
    /\ irqlog' = Append(irqlog, [k |-> "clear", t |-> now, last |-> irq_last_ms])

\* service() goes on to the dwell test only when it read _irq_pending as true
DwellAfterPending ==
    (pc.at = "service" /\ pc.step = "pending" /\ pc' # pc /\ pc'.at = "service")
        => (irq_pending /\ pc'.step = "dwell")

\* C20: the handler only sets pending and the edge time, and _irq_pending
\* goes from true to false only in service(), after service() read it as
\* true.
C20_OnlyServiceClears ==
    [][/\ HandlerOnlySets
       /\ DwellAfterPending
       /\ (irq_pending /\ ~irq_pending') => ClearedByService]_vars


----------------------------------------------------------------------------
(* Claims on read_event and poll *)

\* the sleeps and transfers of the last call, in order: the length of each
\* sleep, the register of each transfer
TraceOps ==
    [i \in DOMAIN trace |->
        IF trace[i].op = "sleep" THEN <<"sleep", trace[i].ms>>
        ELSE <<trace[i].op, trace[i].reg>>]

\* the source code latched in the device when the last call was made
LatchedCode == BitAnd(call.before[REG_IRQ_MASK_SRC], MASK_IRQ_SRC)

\* the reads that follow the interrupt-source read for a lightning code
LightningReads ==
    <<<<"r", REG_DISTANCE>>, <<"r", REG_ENERGY_LSB>>, <<"r", REG_ENERGY_MID>>,
      <<"r", REG_ENERGY_MSB>>>>

\* C27: a read_event(wait_ms) that returns reads the interrupt-source register
\* once, at once when wait_ms = 0 and after one sleep of wait_ms otherwise;
\* for a code of no event it reads nothing more and returns no event; for a
\* lightning code it then reads the distance and the three energy registers
\* in that order and returns distance in 0..63 and energy in 0..0x1FFFFF; for
\* a disturber or noise code it reads nothing more and returns an event with
\* distance and energy empty.
C27_ReadEventSequence ==
    (call.op = "read_event" /\ call.status = "ok") =>
        /\ TraceOps =
             (IF call.arg = 0 THEN <<>> ELSE <<<<"sleep", call.arg>>>>)
             \o <<<<"r", REG_IRQ_MASK_SRC>>>>
             \o (IF int_code_to_src(LatchedCode) = 1 THEN LightningReads ELSE <<>>)
        /\ int_code_to_src(LatchedCode) = 0 <=> call.val = NoneVal
        /\ int_code_to_src(LatchedCode) = 1 =>
              /\ call.val[1].type = "lightning"
              /\ call.val[1].distance_km
                    = Some(BitAnd(call.before[REG_DISTANCE], MASK_DISTANCE))
              /\ call.val[1].distance_km[1] \in 0 .. 63
              /\ call.val[1].energy[1] \in 0 .. 2097151
        /\ int_code_to_src(LatchedCode) \in {2, 3} =>
              /\ call.val[1].type
                    = (IF int_code_to_src(LatchedCode) = 2 THEN "disturber" ELSE "noise")
              /\ call.val[1].distance_km = NoneVal
              /\ call.val[1].energy = NoneVal

\* a read_event with the default settle delay returned a lightning event
C27_Witness ==
    /\ call.op = "read_event"
    /\ call.status = "ok"
    /\ call.arg = 2
    /\ call.val # NoneVal
    /\ call.val[1].type = "lightning"
    /\ Len(trace) = 6


\* C28: every poll() sleeps a nonzero settle delay and then reads the
\* interrupt-source register.
C28_PollSettles ==
    call.op = "poll" =>
        /\ Len(trace) >= 2
        /\ trace[1].op = "sleep"
        /\ trace[1].ms > 0
        /\ TraceOps[2] = <<"r", REG_IRQ_MASK_SRC>>


----------------------------------------------------------------------------
(* Claims on status(), under SpecDev *)

\* status() issues reads only, and the configuration registers are as before
C22_StatusReadsOnly ==
    call.op = "status" =>
        /\ \A i \in DOMAIN trace : trace[i].op = "r"
        /\ \A a \in RegAddrs \ {REG_IRQ_MASK_SRC} : regs[a] = call.before[a]
        /\ BitAndNot(regs[REG_IRQ_MASK_SRC], MASK_IRQ_SRC)
              = BitAndNot(call.before[REG_IRQ_MASK_SRC], MASK_IRQ_SRC)

\* C22: status() issues reads only and leaves every register of the device
\* as it was, the latched interrupt source included, so that the interrupt
\* latched before status() is classified by the next capture.
C22_StatusNeverMutates ==
    (call.op = "status" /\ call.status = "ok") =>
        /\ \A i \in DOMAIN trace : trace[i].op = "r"
        /\ regs = call.before


----------------------------------------------------------------------------
(* Claims on one call of service(), under SpecDrain *)

\* the number of interrupt-source reads in a trace
IrqReads(tr) ==
    Cardinality({i \in DOMAIN tr : tr[i].op = "r" /\ tr[i].reg = REG_IRQ_MASK_SRC})

\* the statements service() still has to run, at most: five for each round
\* left, less those of the current round already run
StepIndex(step) ==
    IF step = "pending" THEN 0 ELSE IF step = "dwell" THEN 1
    ELSE IF step = "clear" THEN 2 ELSE IF step = "settle" THEN 3 ELSE 4
Rank(p) == 5 * p.n - StepIndex(p.step)

\* C26: a call service(max_events) runs at most max_events rounds: the rounds
\* left never go below zero, every statement of service() that does not
\* return lowers the number of statements still to run, the reads of the
\* interrupt source and the events kept never exceed the rounds run, whatever
\* edges arrive; and the dwell test sleeps and reads nothing.
C26_BoundedDrain ==
    [][/\ pc'.at = "service" =>
             /\ pc'.n \in 0 .. pc'.arg
             /\ Rank(pc') >= 0
             /\ Len(pc'.events) <= pc'.arg - pc'.n
             /\ IrqReads(trace') <= pc'.arg - pc'.n
       /\ (pc.at = "service" /\ pc'.at = "service" /\ pc' # pc) => Rank(pc') < Rank(pc)
       /\ (pc.at = "service" /\ pc'.at = "idle" /\ call'.status = "ok") =>
             /\ Len(call'.val) <= pc.arg
             /\ IrqReads(trace') <= pc.arg
       /\ (pc.at = "service" /\ pc.step = "dwell" /\ pc' # pc) =>
             /\ now' = now
             /\ trace' = trace]_vars

\* service(1) has returned one event after one read while a capture, set by
\* an edge that arrived during the sleep of read_event, is still pending
C26_Witness ==
    /\ call.op = "service"
    /\ call.status = "ok"
    /\ call.arg = 1
    /\ Len(call.val) = 1
    /\ IrqReads(trace) = 1
    /\ pc = [at |-> "idle"]
    /\ irq_pending
    /\ Len(irqlog) >= 3
    /\ irqlog[Len(irqlog)].k = "read"
    /\ irqlog[Len(irqlog) - 1].k = "edge"
    /\ irqlog[Len(irqlog) - 2].k = "clear"
    /\ irqlog[Len(irqlog) - 1].t > irqlog[Len(irqlog) - 2].t


\* a statement of service() runs in this step
ServiceStep == pc.at = "service" /\ pc' # pc

\* the last thing noted in the history is of kind k
LastNoted(k) == irqlog # <<>> /\ irqlog[Len(irqlog)].k = k

\* the place in the history of the last entry of kind k, 0 when there is none
LastIndex(k) ==
    LET S == {i \in DOMAIN irqlog : irqlog[i].k = k}
    IN  IF S = {} THEN 0 ELSE CHOOSE i \in S : \A j \in S : j <= i

\* C30: service() clears pending before it touches the bus for the read; a
\* read that fails leaves service() with the bus error, with pending false
\* unless an edge arrived since the clearing, and with nothing appended to
\* the log; and a later service() that finds pending false returns no event
\* without touching the bus.
C30_FailedReadDropsCapture ==
    [][/\ (ServiceStep /\ pc.step = "clear") =>
             /\ ~irq_pending'
             /\ pc' = [pc EXCEPT !.step = "settle"]
             /\ trace' = trace
       /\ (ServiceStep /\ pc.step = "settle") =>
             /\ ~\E i \in DOMAIN trace' : trace'[i].op # "sleep" /\ i > Len(trace)
             /\ regs' = regs
       /\ (ServiceStep /\ pc.step = "sleep" /\ pc'.at = "idle") =>
             /\ call'.op = "service"
             /\ call'.status = "I2CError"
             /\ irq_pending' = irq_pending
             /\ irq_pending => LastIndex("edge") > LastIndex("clear")
             /\ log' = log
             /\ hist' = hist
       /\ (ServiceStep /\ pc.step = "pending" /\ ~irq_pending) =>
             /\ pc' = [at |-> "idle"]
             /\ call'.status = "ok"
             /\ call'.val = pc.events
             /\ trace' = trace
             /\ regs' = regs
             /\ log' = log]_vars

\* the only capture was consumed by a service() whose read failed with
\* nothing logged, and a later
\* service() is at its test of pending, which is false
C30_Witness ==
    /\ call.op = "service"
    /\ call.status = "I2CError"
    /\ pc.at = "service" /\ pc.step = "pending" /\ pc.events = <<>>
    /\ ~irq_pending
    /\ LastNoted("read")
    /\ Len(Clears) = 1
    /\ log.enabled /\ hist = <<>>


\* C25: while a capture is pending an edge that arrives DebounceWindow ms or
\* less after the last recorded edge leaves the recorded time as it is; a
\* round of service() that has found the capture pending keeps finding it
\* pending, and its dwell test, run Dwell to DebounceWindow ms after the
\* recorded edge, goes on to consume the capture, whatever edges arrived.
C25_BounceCannotPostpone ==
    /\ [](pc.at = "service" /\ pc.step \in {"dwell", "clear"} => irq_pending)
    /\ [][/\ (EdgeStep /\ irq_pending
                       /\ ticks_diff(now, irq_last_ms) <= DebounceWindow) =>
                /\ irq_last_ms' = irq_last_ms
                /\ irq_pending'
          /\ (ServiceStep /\ pc.step = "dwell"
                          /\ ticks_diff(now, irq_last_ms) \in Dwell .. DebounceWindow) =>
                pc' = [pc EXCEPT !.step = "clear"]
          /\ (ServiceStep /\ pc.step = "clear") =>
                /\ ~irq_pending'
                /\ irqlog'[Len(irqlog')] =
                       [k |-> "clear", t |-> now, last |-> irq_last_ms]]_vars

\* two edges arrived, the second 2 ms after the first, and service(), run
\* 3 ms after the first, consumed the capture with the time of the first as
\* the recorded one
C25_Witness ==
    /\ Len(Edges) = 2
    /\ Len(Clears) = 1
    /\ Edges[2].t = Edges[1].t + 2
    /\ Clears[1].last = Edges[1].t
    /\ Clears[1].t = Edges[1].t + 3
    /\ LastNoted("clear")
    /\ ~irq_pending


----------------------------------------------------------------------------
(* Claims on the pending-flag protocol, under SpecLive *)

\* service() has cleared pending (line 124) and has not yet read the
\* interrupt source (line 160): it is calling read_event or in its sleep
AboutToRead == pc.at = "service" /\ pc.step \in {"settle", "sleep"}

\* a read of the interrupt source has started after the i-th entry of the
\* history
ReadStartedAfter(i) ==
    \E j \in DOMAIN irqlog : j > i /\ irqlog[j].k = "read"

\* no edge has arrived, or a read has started after the most recent one
LastEdgeRead == LastIndex("edge") = 0 \/ ReadStartedAfter(LastIndex("edge"))

\* every edge is eventually followed by a read that starts after it: a read
\* that starts after the most recent edge starts after every edge before it
EveryEdgeRead == ~LastEdgeRead ~> LastEdgeRead

\* C29 as stated: at every moment pending is true or the most recent edge is
\* older than the start of the most recent read of the interrupt source, and
\* every edge is eventually followed by a read that starts after it.
C29_NoEdgeLost ==
    /\ [](irq_pending \/ LastEdgeRead)
    /\ EveryEdgeRead

\* C29, amended: at every moment pending is true, or service() has cleared
\* it and is about to start the read, or the most recent edge is older than
\* the start of the most recent read; and every edge is eventually followed
\* by a read that starts after it.
C29_NoEdgeLostButInService ==
    /\ [](irq_pending \/ AboutToRead \/ LastEdgeRead)
    /\ EveryEdgeRead

\* an edge arrived between the clearing of pending and the read, and a
\* second round has consumed the capture it set and has made its read
C29_Witness ==
    /\ Len(Edges) = 2
    /\ Len(Clears) = 2
    /\ \E i \in DOMAIN irqlog :
          /\ i + 2 <= Len(irqlog)
          /\ irqlog[i].k = "clear"
          /\ irqlog[i + 1].k = "edge"
          /\ irqlog[i + 2].k = "read"
    /\ Clears[2].last = Edges[2].t
    /\ LastNoted("read")
    /\ ~irq_pending
    /\ ~AboutToRead


----------------------------------------------------------------------------
(* Claims on the application's methods, under SpecApp *)

\* the calls that require a sensor; run() is noted as run_enter when it
\* enters its loop
GuardedOps == {"app_status", "tail", "app_step", "run", "run_enter"}

\* one of the guarded methods is called in this step
GuardedCall == call' # call /\ call'.op \in GuardedOps

\* C23: before start() has succeeded status(), tail(), step() and run() raise
\* the not-initialized error, make no bus transaction and change nothing of
\* the application, the driver, the device or the sink; once start() has
\* succeeded they never raise it.
C23_NotInitialized ==
    [][GuardedCall =>
          IF ~app.sensor
          THEN /\ call'.status = "RuntimeError"
               /\ trace' = <<>>
               /\ UNCHANGED <<regs, app, sink, pc, now, drvvars, flowvars>>
          ELSE call'.status # "RuntimeError"]_vars

\* step() was refused on an application whose start() has not succeeded,
\* with an interrupt pin already given to it
C23_Witness ==
    /\ ~app.sensor
    /\ app.irq_pin
    /\ call.op = "app_step"
    /\ call.status = "RuntimeError"
    /\ trace = <<>>


\* AS3935App.attach_irq has returned on the started application: both its
\* own pin and the driver's are set
AttachedThroughApp == app.sensor /\ app.irq_pin /\ irq_pin

\* an edge on the pin is taken by the handler the pin holds in this step:
\* a pending flag is set or a newer edge time recorded, outside any call
EdgeTaken ==
    /\ pin_handler \in {"app", "driver"}
    /\ UNCHANGED <<call, pc, now, regs>>
    /\ \/ app' # app /\ app'.irq_pending
       \/ <<irq_pending, irq_last_ms>>' # <<irq_pending, irq_last_ms>> /\ irq_pending'

\* service() of the application, called with room for a round, returns in
\* this step
AppServiceCalled ==
    /\ call' # call
    /\ call'.op = "app_service"
    /\ call'.arg >= 1
    /\ call'.status = "ok"

\* an edge was taken at least Dwell ms before the service() that returns in
\* this step was called, and its capture was pending at the call; a call
\* takes no time
PendingAtCall ==
    \/ irq_pending /\ now >= irq_last_ms + Dwell
    \/ /\ call'.before_app.irq_pending
       /\ now >= call'.before_app.irq_last_ms + Dwell

\* C24: once AS3935App.attach_irq(pin) has returned, the pin holds the
\* application's handler: an edge sets the application's pending flag, and
\* a service() of the application called at least 2 ms after an edge whose
\* capture is pending consumes it, reading the interrupt source.
C24_AppHandlerOnPin ==
    /\ [](AttachedThroughApp => pin_handler = "app")
    /\ [][/\ (AttachedThroughApp /\ EdgeTaken) => app'.irq_pending
          /\ (/\ AttachedThroughApp
              /\ AppServiceCalled
              /\ PendingAtCall)
             => /\ IrqReads(trace') >= 1
                /\ ~irq_pending']_vars


\* a capture operation of the application returns in this step
CaptureOps == {"app_service", "app_step", "run_iteration"}
CaptureStep == call' # call /\ call'.op \in CaptureOps /\ call'.status = "ok"

\* the events the capture produced; an iteration of run() returns them with
\* the time it read
Produced(c) == IF c.op = "run_iteration" THEN c.val.events ELSE c.val

\* what tail(1), which is sensor.get_log(1), returns in the state the step
\* leads to
TailOne == get_log([log |-> log'], Some(1)).val

\* the events of the capture are appended, each once, to the log tail reads,
\* and tail(1) returns the last of them
CaptureLogged ==
    /\ hist' = call'.before_hist \o Produced(call')
    /\ Produced(call') # <<>> =>
           TailOne = <<Produced(call')[Len(Produced(call'))]>>

\* C21: every event produced by service(), step() and the captures of run()
\* is appended exactly once to the ring log that tail(n) reads: right after
\* the capture tail(1) returns that event.
C21_EveryCaptureLogged == [][CaptureStep => CaptureLogged]_vars

\* the captures made through the driver's poll(), which add nothing to the
\* application's own list, are logged
C21_PolledCapturesLogged ==
    [][(CaptureStep /\ app'.log = call'.before_app.log) => CaptureLogged]_vars

============================================================================
